---- MODULE Spec2Model ----
(***************************************************************************)
(* A model of the generic Set container of goloop/set: a map from the     *)
(* textual key of an element to the element, every operation threaded     *)
(* with a cooperative cancellation token (context.Context).               *)
(*                                                                         *)
(* Tokens.  A token is observed only where the code polls ctx.Done().     *)
(* During one call a token is represented by its budget: the number of    *)
(* polls that still find it live.  Budget 0 is a cancelled token, Never   *)
(* is a token that is not cancelled during the call (a nil token is       *)
(* replaced by context.Background(), which is never cancelled).           *)
(*                                                                         *)
(* Iteration.  `for _, v := range s.heap` visits the map in an order the  *)
(* runtime chooses; an operation takes the order as the input ord, a      *)
(* permutation of the keys of the map.                                    *)
(***************************************************************************)
EXTENDS Integers, Sequences, FiniteSets

\* Bounds of the model.
MaxItem == 2
MaxChecks == 2
MaxArgs == 2

\* Threads that call into one set at the same time.
NumThreads == 2

\* Hardware threads of the machine (runtime.NumCPU()).
NumCPU == 1

\* Largest set handed to a fanned-out Any/All, and largest threshold tried.
MaxElems == 3

MaxLoad == 1

\* Most further sets handed to a free function of fn.go.
MaxSets == 2

\* Bits of an int: the model's ints are narrower than the machine's.
IntWidth == 4

\* Most entries of a composite element, and most composite elements held.
MaxEntries == 2

MaxHeld == 2

\* The element type is int; the elements the model draws from.
Items == (2 .. MaxItem) \cup {10}

Never == -1

IsDone(b) == b = 0

Pass(b) == IF b > 0 THEN b - 1 ELSE b

\* The budgets a call may run under, given whether its token is cancelled.
Budgets(done) == IF done THEN {0} ELSE (1 .. MaxChecks) \cup {Never}

(***************************************************************************)
(* Keys: fmt.Sprintf("%v", obj) of an int, as the sequence of its         *)
(* characters.                                                             *)
(***************************************************************************)
Digit == <<"0", "1", "2", "3", "4", "5", "6", "7", "8", "9">>

RECURSIVE Sprintf(_)
Sprintf(n) ==
  IF n < 0 THEN <<"-">> \o Sprintf(0 - n)
  ELSE IF n < 10 THEN <<Digit[n + 1]>>
  ELSE Sprintf(n \div 10) \o <<Digit[(n % 10) + 1]>>

\* The map type: make(map[string]T), s.heap[k] = v, delete(s.heap, k).
EmptyHeap == [k \in {} |-> 0]

\* A store that never overwrites: a taken key gets a fresh slot.
PutFresh(heap, k, v) ==
  LET slot == IF k \in DOMAIN heap THEN k \o <<"'">> ELSE k IN
  [x \in (DOMAIN heap) \cup {slot} |-> IF x = slot THEN v ELSE heap[x]]

Put(heap, k, v) == [x \in (DOMAIN heap) \cup {k} |-> IF x = k THEN v ELSE heap[x]]

\* A delete that removes nothing.
DelNothing(heap, k) == heap

Del(heap, k) == [x \in (DOMAIN heap) \ {k} |-> heap[x]]

Values(heap) == {heap[k] : k \in DOMAIN heap}

\* The orders in which a range loop may visit the keys of a map.
Orders(heap) ==
  LET n == Cardinality(DOMAIN heap) IN
  {f \in [1 .. n -> DOMAIN heap] : \A i, j \in 1 .. n : i # j => f[i] # f[j]}

\* Set.toHash on a set of a simple element type.
toHash(b, obj) ==
  IF IsDone(b) THEN [key |-> <<>>, err |-> TRUE, b |-> b]
  ELSE [key |-> Sprintf(obj), err |-> FALSE, b |-> Pass(b)]

RECURSIVE addLoop(_, _, _, _)
addLoop(heap, b, items, i) ==
  IF i > Len(items) THEN [heap |-> heap, err |-> FALSE, b |-> b]
  ELSE IF IsDone(b) THEN [heap |-> heap, err |-> TRUE, b |-> b]
  ELSE LET h == toHash(Pass(b), items[i]) IN
       IF h.err THEN [heap |-> heap, err |-> TRUE, b |-> h.b]
       ELSE addLoop(Put(heap, h.key, items[i]), h.b, items, i + 1)

\* An Add that never polls its token.
addIgnoringContext(heap, b, items) ==
  [heap |-> addLoop(heap, Never, items, 1).heap, err |-> FALSE, b |-> b]

addWithContext(heap, b, items) == addLoop(heap, b, items, 1)

RECURSIVE deleteLoop(_, _, _, _)
deleteLoop(heap, b, items, i) ==
  IF i > Len(items) THEN [heap |-> heap, err |-> FALSE, b |-> b]
  ELSE IF IsDone(b) THEN [heap |-> heap, err |-> TRUE, b |-> b]
  ELSE LET h == toHash(Pass(b), items[i]) IN
       IF h.err THEN [heap |-> heap, err |-> TRUE, b |-> h.b]
       ELSE deleteLoop(Del(heap, h.key), h.b, items, i + 1)

deleteWithContext(heap, b, items) == deleteLoop(heap, b, items, 1)

containsWithContext(heap, b, item) ==
  LET h == toHash(b, item) IN
  IF h.err THEN [val |-> FALSE, err |-> TRUE, b |-> h.b]
  ELSE [val |-> h.key \in DOMAIN heap, err |-> FALSE, b |-> h.b]

\* Contains(item): containsWithContext(s.ctx, item) with the error dropped.
Contains(heap, done, item) ==
  containsWithContext(heap, IF done THEN 0 ELSE Never, item).val

\* A Clear that leaves the map as it is.
ClearNothing(heap) == heap

Clear(heap) == EmptyHeap

\* A constructor that adds the items whatever the token says.
NewIgnoringContext(b, items) == addWithContext(EmptyHeap, Never, items).heap

\* New / NewWithContext: an empty map, then Add(items...) under the token.
NewWithContext(b, items) == addWithContext(EmptyHeap, b, items).heap

New(items) == NewWithContext(Never, items)

(***************************************************************************)
(* The caller-supplied functions the model draws from.                    *)
(***************************************************************************)
Preds == {"none", "all", "gt3"}

Pred(fn, x) ==
  CASE fn = "none" -> FALSE
    [] fn = "all" -> TRUE
    [] fn = "gt3" -> x > 3

MapFns == {"id", "mod2"}

MapFn(fn, x) == IF fn = "id" THEN x ELSE x % 2

\* The reducer func(acc, item) { return acc + item }.
Reducer(acc, x) == acc + x

\* The values of the elements of a map, in the order ord of its keys.
InOrder(heap, ord) == [i \in 1 .. Len(ord) |-> heap[ord[i]]]

(***************************************************************************)
(* Read operations.  Each returns the value, the error and the budget     *)
(* of the token left after the call.                                      *)
(***************************************************************************)
RECURSIVE elementsLoop(_, _, _, _, _)
elementsLoop(heap, ord, b, i, items) ==
  IF i > Len(ord) THEN [val |-> items, err |-> FALSE, b |-> b]
  ELSE IF IsDone(b) THEN [val |-> <<>>, err |-> TRUE, b |-> b]
  ELSE elementsLoop(heap, ord, Pass(b), i + 1, Append(items, heap[ord[i]]))

elementsWithContext(heap, ord, b) == elementsLoop(heap, ord, b, 1, <<>>)

RECURSIVE filteredLoop(_, _, _, _, _, _)
filteredLoop(heap, ord, b, fn, i, result) ==
  IF i > Len(ord) THEN [val |-> result, err |-> FALSE, b |-> b, calls |-> i - 1]
  ELSE IF IsDone(b) THEN [val |-> <<>>, err |-> TRUE, b |-> b, calls |-> i - 1]
  ELSE filteredLoop(heap, ord, Pass(b), fn, i + 1,
                    IF Pred(fn, heap[ord[i]])
                    THEN Append(result, heap[ord[i]]) ELSE result)

filteredWithContext(heap, ord, b, fn) == filteredLoop(heap, ord, b, fn, 1, <<>>)

RECURSIVE reduceLoop(_, _, _, _, _)
reduceLoop(heap, ord, b, i, acc) ==
  IF i > Len(ord) THEN [val |-> acc, err |-> FALSE, b |-> b, calls |-> i - 1]
  ELSE IF IsDone(b) THEN [val |-> acc, err |-> TRUE, b |-> b, calls |-> i - 1]
  ELSE reduceLoop(heap, ord, Pass(b), i + 1, Reducer(acc, heap[ord[i]]))

\* The method Set.reduceWithContext.
reduceWithContext(heap, ord, b) == reduceLoop(heap, ord, b, 1, 0)

\* Set.Reduce passes a nil token, not s.ctx.
Reduce(heap, ord) == reduceWithContext(heap, ord, Never).val

RECURSIVE freeReduceLoop(_, _, _, _, _)
freeReduceLoop(heap, ord, b, i, acc) ==
  IF i > Len(ord) THEN [val |-> acc, err |-> FALSE, b |-> b, calls |-> i - 1]
  ELSE LET next == Reducer(acc, heap[ord[i]]) IN
       IF IsDone(b) THEN [val |-> 0, err |-> TRUE, b |-> b, calls |-> i]
       ELSE freeReduceLoop(heap, ord, Pass(b), i + 1, next)

\* The free function ReduceWithContext: the reducer runs before the poll.
ReduceWithContext(heap, ord, b) == freeReduceLoop(heap, ord, b, 1, 0)

RECURSIVE anyLoop(_, _, _, _, _)
anyLoop(heap, ord, b, fn, i) ==
  IF i > Len(ord) THEN [val |-> FALSE, err |-> FALSE, b |-> b, calls |-> i - 1]
  ELSE IF IsDone(b) THEN [val |-> FALSE, err |-> TRUE, b |-> b, calls |-> i - 1]
  ELSE IF Pred(fn, heap[ord[i]])
    THEN [val |-> TRUE, err |-> FALSE, b |-> Pass(b), calls |-> i]
  ELSE anyLoop(heap, ord, Pass(b), fn, i + 1)

anyWithContext(heap, ord, b, fn) == anyLoop(heap, ord, b, fn, 1)

RECURSIVE allLoop(_, _, _, _, _)
allLoop(heap, ord, b, fn, i) ==
  IF i > Len(ord) THEN [val |-> TRUE, err |-> FALSE, b |-> b, calls |-> i - 1]
  ELSE IF IsDone(b) THEN [val |-> FALSE, err |-> TRUE, b |-> b, calls |-> i - 1]
  ELSE IF ~Pred(fn, heap[ord[i]])
    THEN [val |-> FALSE, err |-> FALSE, b |-> Pass(b), calls |-> i]
  ELSE allLoop(heap, ord, Pass(b), fn, i + 1)

allWithContext(heap, ord, b, fn) == allLoop(heap, ord, b, fn, 1)

(***************************************************************************)
(* Sorted.  Keys are compared as Go strings (bytewise); sort.Slice is not *)
(* stable, so a pass may leave any arrangement its comparison accepts.    *)
(***************************************************************************)
CharOrder == <<"-", "0", "1", "2", "3", "4", "5", "6", "7", "8", "9">>

Code(c) == CHOOSE i \in 1 .. Len(CharOrder) : CharOrder[i] = c

RECURSIVE StrLess(_, _)
StrLess(a, b) ==
  IF a = <<>> THEN b # <<>>
  ELSE IF b = <<>> THEN FALSE
  ELSE IF Head(a) = Head(b) THEN StrLess(Tail(a), Tail(b))
  ELSE Code(Head(a)) < Code(Head(b))

\* Comparison functions a caller may pass: ascending, descending, and even
\* before odd, which treats two evens (or two odds) as equal.
Cmps == {"asc", "desc", "parity"}

Less(fn, x, y) ==
  IF fn = "asc" THEN x < y
  ELSE IF fn = "desc" THEN x > y
  ELSE x % 2 < y % 2

\* Sorting passes of which only the first counts.
SortOutcomesByFirst(heap, fns) ==
  IF fns = <<>>
  THEN {p \in Orders(heap) :
          \A i, j \in 1 .. Len(p) : i < j => StrLess(p[i], p[j])}
  ELSE {p \in Orders(heap) :
          \A i, j \in 1 .. Len(p) :
             i < j => ~Less(fns[1], heap[p[j]], heap[p[i]])}

\* The arrangements of the keys the sorting passes of sortedWithContext may leave.
SortOutcomes(heap, fns) ==
  IF fns = <<>>
  THEN {p \in Orders(heap) :
          \A i, j \in 1 .. Len(p) : i < j => StrLess(p[i], p[j])}
  ELSE {p \in Orders(heap) :
          \A i, j \in 1 .. Len(p) :
             i < j => ~Less(fns[Len(fns)], heap[p[j]], heap[p[i]])}

\* n successive polls of the token.
PollN(b, n) ==
  IF b = Never THEN [err |-> FALSE, b |-> b]
  ELSE IF b < n THEN [err |-> TRUE, b |-> 0]
  ELSE [err |-> FALSE, b |-> b - n]

\* out is the arrangement the sort left, one of SortOutcomes(heap, fns).
sortedWithContext(heap, ord, b, out) ==
  LET n == Len(ord)
      p1 == PollN(b, n)
      p2 == PollN(p1.b, n) IN
  IF p1.err THEN [val |-> <<>>, err |-> TRUE, b |-> p1.b]
  ELSE IF p2.err THEN [val |-> <<>>, err |-> TRUE, b |-> p2.b]
  ELSE [val |-> InOrder(heap, out), err |-> FALSE, b |-> p2.b]

(***************************************************************************)
(* Operations that build a new set.  The result is made by New[T](), so   *)
(* its own default token is nil: result.Add never fails.                  *)
(***************************************************************************)
\* A union that forgets the argument set.
unionOfReceiverOnly(s, set, ordS, ordO, b) ==
  LET e1 == elementsWithContext(s, ordS, b) IN
  [val |-> New(e1.val), err |-> e1.err, b |-> e1.b]

unionWithContext(s, set, ordS, ordO, b) ==
  LET e1 == elementsWithContext(s, ordS, b)
      e2 == elementsWithContext(set, ordO, e1.b) IN
  IF e1.err THEN [val |-> New(<<>>), err |-> TRUE, b |-> e1.b]
  ELSE IF e2.err THEN [val |-> New(<<>>), err |-> TRUE, b |-> e2.b]
  ELSE [val |-> addWithContext(New(e1.val), Never, e2.val).heap,
        err |-> FALSE, b |-> e2.b]

RECURSIVE intersectionLoop(_, _, _, _, _, _)
intersectionLoop(s, set, ord, b, i, result) ==
  IF i > Len(ord) THEN [val |-> result, err |-> FALSE, b |-> b]
  ELSE LET v == s[ord[i]]
           c == containsWithContext(set, b, v)
           a == IF c.val THEN addWithContext(result, c.b, <<v>>)
                ELSE [heap |-> result, err |-> c.err, b |-> c.b] IN
       IF a.err THEN [val |-> New(<<>>), err |-> TRUE, b |-> a.b]
       ELSE intersectionLoop(s, set, ord, a.b, i + 1, a.heap)

intersectionWithContext(s, set, ord, b) ==
  intersectionLoop(s, set, ord, b, 1, New(<<>>))

\* setDone: whether set's own default token is cancelled (set.Contains uses it).
RECURSIVE differenceLoop(_, _, _, _, _, _, _)
differenceLoop(s, set, setDone, ord, b, i, result) ==
  IF i > Len(ord) THEN [val |-> result, err |-> FALSE, b |-> b]
  ELSE IF IsDone(b) THEN [val |-> New(<<>>), err |-> TRUE, b |-> b]
  ELSE LET v == s[ord[i]] IN
       differenceLoop(s, set, setDone, ord, Pass(b), i + 1,
                      IF ~Contains(set, setDone, v)
                      THEN addWithContext(result, Never, <<v>>).heap
                      ELSE result)

\* A difference that keeps what it should drop.
differenceKeepingAll(s, set, setDone, ord, b) ==
  differenceLoop(s, EmptyHeap, setDone, ord, b, 1, New(<<>>))

differenceWithContext(s, set, setDone, ord, b) ==
  differenceLoop(s, set, setDone, ord, b, 1, New(<<>>))

\* A symmetric difference that forgets the elements of the argument set.
symmetricDifferenceOneSided(s, sDone, set, setDone, ordS, ordO, b) ==
  differenceLoop(s, set, setDone, ordS, b, 1, New(<<>>))

symmetricDifferenceWithContext(s, sDone, set, setDone, ordS, ordO, b) ==
  LET d1 == differenceLoop(s, set, setDone, ordS, b, 1, New(<<>>))
      d2 == differenceLoop(set, s, sDone, ordO, d1.b, 1, d1.val) IN
  IF d1.err THEN d1 ELSE d2

RECURSIVE mapLoop(_, _, _, _, _, _)
mapLoop(s, ord, b, fn, i, result) ==
  IF i > Len(ord) THEN [val |-> result, err |-> FALSE, b |-> b, calls |-> i - 1]
  ELSE IF IsDone(b) THEN [val |-> New(<<>>), err |-> TRUE, b |-> b, calls |-> i - 1]
  ELSE mapLoop(s, ord, Pass(b), fn, i + 1,
               addWithContext(result, Never, <<MapFn(fn, s[ord[i]])>>).heap)

mapWithContext(s, ord, b, fn) == mapLoop(s, ord, b, fn, 1, New(<<>>))

\* The free function MapWithContext: fn(v) is evaluated as the argument of
\* result.addWithContext(ctx, fn(v)), which is where the token is polled.
RECURSIVE freeMapLoop(_, _, _, _, _, _)
freeMapLoop(s, ord, b, fn, i, result) ==
  IF i > Len(ord) THEN [val |-> result, err |-> FALSE, b |-> b, calls |-> i - 1]
  ELSE LET a == addWithContext(result, b, <<MapFn(fn, s[ord[i]])>>) IN
       IF a.err THEN [val |-> New(<<>>), err |-> TRUE, b |-> a.b, calls |-> i]
       ELSE freeMapLoop(s, ord, a.b, fn, i + 1, a.heap)

MapWithContext(s, ord, b, fn) == freeMapLoop(s, ord, b, fn, 1, New(<<>>))

RECURSIVE copyLoop(_, _, _, _, _)
copyLoop(s, ord, b, i, result) ==
  IF i > Len(ord) THEN [val |-> result, err |-> FALSE, b |-> b]
  ELSE LET a == addWithContext(result, b, <<s[ord[i]]>>) IN
       IF a.err THEN [val |-> New(<<>>), err |-> TRUE, b |-> a.b]
       ELSE copyLoop(s, ord, a.b, i + 1, a.heap)

copyWithContext(s, ord, b) == copyLoop(s, ord, b, 1, New(<<>>))

RECURSIVE filterLoop(_, _, _, _, _, _)
filterLoop(s, ord, b, fn, i, result) ==
  IF i > Len(ord) THEN [val |-> result, err |-> FALSE, b |-> b, calls |-> i - 1]
  ELSE IF ~Pred(fn, s[ord[i]]) THEN filterLoop(s, ord, b, fn, i + 1, result)
  ELSE LET a == addWithContext(result, b, <<s[ord[i]]>>) IN
       IF a.err THEN [val |-> New(<<>>), err |-> TRUE, b |-> a.b, calls |-> i]
       ELSE filterLoop(s, ord, a.b, fn, i + 1, a.heap)

\* A filter that keeps every element.
filterKeepingAll(s, ord, b, fn) == copyWithContext(s, ord, b)

filterWithContext(s, ord, b, fn) == filterLoop(s, ord, b, fn, 1, New(<<>>))

\* The free function FilterWithContext has the body of the method.
FilterWithContext(s, ord, b, fn) == filterLoop(s, ord, b, fn, 1, New(<<>>))

RECURSIVE isSubsetLoop(_, _, _, _, _, _)
isSubsetLoop(s, set, setDone, ord, b, i) ==
  IF i > Len(ord) THEN [val |-> TRUE, err |-> FALSE, b |-> b]
  ELSE IF IsDone(b) THEN [val |-> FALSE, err |-> TRUE, b |-> b]
  ELSE IF ~Contains(set, setDone, s[ord[i]])
       THEN [val |-> FALSE, err |-> FALSE, b |-> Pass(b)]
  ELSE isSubsetLoop(s, set, setDone, ord, Pass(b), i + 1)

isSubsetWithContext(s, set, setDone, ord, b) ==
  IF Cardinality(DOMAIN s) >= Cardinality(DOMAIN set)
  THEN [val |-> FALSE, err |-> FALSE, b |-> b]
  ELSE isSubsetLoop(s, set, setDone, ord, b, 1)

\* ord is an order of the keys of set, the argument.
RECURSIVE isSupersetLoop(_, _, _, _, _)
isSupersetLoop(s, set, ord, b, i) ==
  IF i > Len(ord) THEN [val |-> TRUE, err |-> FALSE, b |-> b]
  ELSE LET c == containsWithContext(s, b, set[ord[i]]) IN
       IF c.err THEN [val |-> FALSE, err |-> TRUE, b |-> c.b]
       ELSE IF ~c.val THEN [val |-> FALSE, err |-> FALSE, b |-> c.b]
       ELSE isSupersetLoop(s, set, ord, c.b, i + 1)

isSupersetWithContext(s, set, ord, b) ==
  IF Cardinality(DOMAIN s) < Cardinality(DOMAIN set)
  THEN [val |-> FALSE, err |-> FALSE, b |-> b]
  ELSE isSupersetLoop(s, set, ord, b, 1)

(***************************************************************************)
(* Mutators of the receiver beyond Add and Delete.                        *)
(***************************************************************************)
\* sets and ords: the argument sets and the order each is visited in.
RECURSIVE appendLoop(_, _, _, _, _, _)
appendLoop(s, sets, ords, b, n, i) ==
  IF n > Len(sets) THEN [heap |-> s, err |-> FALSE, b |-> b]
  ELSE IF i > Len(ords[n]) THEN appendLoop(s, sets, ords, b, n + 1, 1)
  ELSE LET a == addWithContext(s, b, <<sets[n][ords[n][i]]>>) IN
       IF a.err THEN a ELSE appendLoop(a.heap, sets, ords, a.b, n, i + 1)

appendWithContext(s, sets, ords, b) == appendLoop(s, sets, ords, b, 1, 1)

extendWithContext(s, sets, ords, b) == appendWithContext(s, sets, ords, b)

\* An Overwrite that clears only once the token has let it through.
overwriteCheckingFirst(s, b, items) ==
  IF IsDone(b) THEN [heap |-> s, err |-> TRUE, b |-> b]
  ELSE addWithContext(Clear(s), b, items)

overwriteWithContext(s, b, items) == addWithContext(Clear(s), b, items)

(***************************************************************************)
(* The free functions of fn.go take a set and any number of further sets. *)
(* others and ords: the further sets and the order each is visited in.    *)
(* Every one of them builds its result in a set of its own, New(), whose  *)
(* default token is never cancelled: result.Delete and result.Add run     *)
(* under that token, the other steps under ctx.                           *)
(***************************************************************************)
UnionWithContext(s, others, ordS, ords, b) ==
  LET a == appendLoop(New(<<>>), <<s>> \o others, <<ordS>> \o ords, b, 1, 1) IN
  [val |-> IF a.err THEN New(<<>>) ELSE a.heap, err |-> a.err, b |-> a.b]

\* The inner loop of IntersectionWithContext: is v in every other set?
RECURSIVE inAllLoop(_, _, _, _)
inAllLoop(others, b, v, n) ==
  IF n > Len(others) THEN [val |-> TRUE, err |-> FALSE, b |-> b]
  ELSE LET c == containsWithContext(others[n], b, v) IN
       IF ~c.val /\ ~c.err THEN [val |-> FALSE, err |-> FALSE, b |-> c.b]
       ELSE IF c.err THEN [val |-> FALSE, err |-> TRUE, b |-> c.b]
       ELSE inAllLoop(others, c.b, v, n + 1)

RECURSIVE freeIntersectionLoop(_, _, _, _, _, _)
freeIntersectionLoop(s, others, ordS, b, i, result) ==
  IF i > Len(ordS) THEN [val |-> result, err |-> FALSE, b |-> b]
  ELSE LET v == s[ordS[i]]
           found == inAllLoop(others, b, v, 1) IN
       IF found.err THEN [val |-> New(<<>>), err |-> TRUE, b |-> found.b]
       ELSE IF ~found.val
         THEN freeIntersectionLoop(s, others, ordS, found.b, i + 1, result)
       ELSE LET a == addWithContext(result, found.b, <<v>>) IN
            IF a.err THEN [val |-> New(<<>>), err |-> TRUE, b |-> a.b]
            ELSE freeIntersectionLoop(s, others, ordS, a.b, i + 1, a.heap)

IntersectionWithContext(s, others, ordS, b) ==
  freeIntersectionLoop(s, others, ordS, b, 1, New(<<>>))

\* The second loop of DifferenceWithContext.
RECURSIVE freeDifferenceLoop(_, _, _, _, _, _)
freeDifferenceLoop(result, others, ords, b, n, i) ==
  IF n > Len(others) THEN [val |-> result, err |-> FALSE, b |-> b]
  ELSE IF i > Len(ords[n]) THEN freeDifferenceLoop(result, others, ords, b, n + 1, 1)
  ELSE LET v == others[n][ords[n][i]]
           c == containsWithContext(result, b, v) IN
       IF c.val /\ ~c.err
         THEN freeDifferenceLoop(deleteWithContext(result, Never, <<v>>).heap,
                                 others, ords, c.b, n, i + 1)
       ELSE IF c.err THEN [val |-> New(<<>>), err |-> TRUE, b |-> c.b]
       ELSE freeDifferenceLoop(result, others, ords, c.b, n, i + 1)

DifferenceWithContext(s, others, ordS, ords, b) ==
  LET a == appendLoop(New(<<>>), <<s>>, <<ordS>>, b, 1, 1) IN
  IF a.err THEN [val |-> New(<<>>), err |-> TRUE, b |-> a.b]
  ELSE freeDifferenceLoop(a.heap, others, ords, a.b, 1, 1)

\* The second loop of SymmetricDifferenceWithContext.
RECURSIVE freeSymmetricDifferenceLoop(_, _, _, _, _, _)
freeSymmetricDifferenceLoop(result, others, ords, b, n, i) ==
  IF n > Len(others) THEN [val |-> result, err |-> FALSE, b |-> b]
  ELSE IF i > Len(ords[n])
    THEN freeSymmetricDifferenceLoop(result, others, ords, b, n + 1, 1)
  ELSE LET v == others[n][ords[n][i]]
           c == containsWithContext(result, b, v) IN
       IF c.val /\ ~c.err
         THEN freeSymmetricDifferenceLoop(deleteWithContext(result, Never, <<v>>).heap,
                                          others, ords, c.b, n, i + 1)
       ELSE IF ~c.val /\ ~c.err
         THEN freeSymmetricDifferenceLoop(addWithContext(result, Never, <<v>>).heap,
                                          others, ords, c.b, n, i + 1)
       ELSE [val |-> New(<<>>), err |-> TRUE, b |-> c.b]

\* The toggle loop replaced by the removal loop.
SymmetricDifferenceRemovingOnly(s, others, ordS, ords, b) ==
  LET a == appendLoop(New(<<>>), <<s>>, <<ordS>>, b, 1, 1) IN
  IF a.err THEN [val |-> New(<<>>), err |-> TRUE, b |-> a.b]
  ELSE freeDifferenceLoop(a.heap, others, ords, a.b, 1, 1)

SymmetricDifferenceWithContext(s, others, ordS, ords, b) ==
  LET a == appendLoop(New(<<>>), <<s>>, <<ordS>>, b, 1, 1) IN
  IF a.err THEN [val |-> New(<<>>), err |-> TRUE, b |-> a.b]
  ELSE freeSymmetricDifferenceLoop(a.heap, others, ords, a.b, 1, 1)

(***************************************************************************)
(* MarshalJSON and UnmarshalJSON.  The wire form is the text of a JSON    *)
(* array: "[", the elements in decimal separated by ",", and "]".  The    *)
(* text is a sequence of characters, and decoding reads it back character *)
(* by character.                                                          *)
(***************************************************************************)
RECURSIVE EncodeItems(_, _)
EncodeItems(items, i) ==
  IF i > Len(items) THEN <<>>
  ELSE (IF i > 1 THEN <<",">> ELSE <<>>) \o Sprintf(items[i]) \o EncodeItems(items, i + 1)

EncodeArray(items) == <<"[">> \o EncodeItems(items, 1) \o <<"]">>

\* The elements are written in the order the map is visited in.
MarshalJSON(heap, ord) == EncodeArray([i \in 1 .. Len(ord) |-> heap[ord[i]]])

IsDigit(c) == \E d \in 1 .. Len(Digit) : Digit[d] = c

DigitValue(c) == (CHOOSE d \in 1 .. Len(Digit) : Digit[d] = c) - 1

\* The number a run of digits denotes; acc is the value read so far.
RECURSIVE Atoi(_, _)
Atoi(text, acc) ==
  IF text = <<>> THEN acc ELSE Atoi(Tail(text), acc * 10 + DigitValue(Head(text)))

\* Reads the elements between the brackets: text is what is left to read,
\* token the digits of the element being read, items the elements read.
RECURSIVE DecodeItems(_, _, _)
DecodeItems(text, token, items) ==
  IF text = <<>>
    THEN IF token = <<>> THEN [items |-> <<>>, err |-> TRUE]
         ELSE [items |-> Append(items, Atoi(token, 0)), err |-> FALSE]
  ELSE IF Head(text) = ","
    THEN IF token = <<>> THEN [items |-> <<>>, err |-> TRUE]
         ELSE DecodeItems(Tail(text), <<>>, Append(items, Atoi(token, 0)))
  ELSE IF IsDigit(Head(text)) THEN DecodeItems(Tail(text), Append(token, Head(text)), items)
  ELSE [items |-> <<>>, err |-> TRUE]

DecodeArray(data) ==
  IF Len(data) < 2 \/ Head(data) # "[" \/ data[Len(data)] # "]"
    THEN [items |-> <<>>, err |-> TRUE]
  ELSE IF Len(data) = 2 THEN [items |-> <<>>, err |-> FALSE]
  ELSE DecodeItems(SubSeq(data, 2, Len(data) - 1), <<>>, <<>>)

\* UnmarshalJSON decodes, empties the set and adds the decoded elements as
\* Add does. On text that does not decode it fails, and the set is left
\* either as it was or empty: cleared is which of the two.
UnmarshalJSON(heap, b, data, cleared) ==
  LET d == DecodeArray(data) IN
  IF d.err THEN [heap |-> IF cleared THEN Clear(heap) ELSE heap, err |-> TRUE, b |-> b]
  ELSE addWithContext(Clear(heap), b, d.items)

(***************************************************************************)
(* Keys of composite elements.  A composite value is a slice of ints or a *)
(* map from int to int: elems holds the elements of a slice, entries the  *)
(* entries of a map.  keys is the order v.MapKeys() returns the keys of   *)
(* the map in, which the language leaves open and which may differ from   *)
(* one call to the next.  Every call of toStr and of toHash polls ctx     *)
(* first.                                                                  *)
(***************************************************************************)
SliceOf(elems) == [kind |-> "slice", elems |-> elems, entries |-> [k \in {} |-> 0]]

MapOf(entries) == [kind |-> "map", elems |-> <<>>, entries |-> entries]

\* The orders MapKeys may return: for a slice there are no keys.
MapKeys(v) == Orders(v.entries)

\* toStr of an int: the default case, fmt.Sprintf("%v", v).
toStrInt(b, n) ==
  IF IsDone(b) THEN [key |-> <<>>, err |-> TRUE, b |-> b]
  ELSE [key |-> Sprintf(n), err |-> FALSE, b |-> Pass(b)]

\* "[" + strings.Join(elements, ", ") + "]"
RECURSIVE toStrSlice(_, _, _, _)
toStrSlice(b, elems, i, acc) ==
  IF i > Len(elems) THEN [key |-> acc \o <<"]">>, err |-> FALSE, b |-> b]
  ELSE LET value == toStrInt(b, elems[i]) IN
       IF value.err THEN [key |-> <<>>, err |-> TRUE, b |-> value.b]
       ELSE toStrSlice(value.b, elems, i + 1,
                       acc \o (IF i > 1 THEN <<",", " ">> ELSE <<>>) \o value.key)

\* "{" + strings.Join(r, ", ") + "}" with r the "key:value" of each entry.
RECURSIVE toStrMap(_, _, _, _, _)
toStrMap(b, entries, keys, i, acc) ==
  IF i > Len(keys) THEN [key |-> acc \o <<"}">>, err |-> FALSE, b |-> b]
  ELSE LET kValue == toStrInt(b, keys[i]) IN
       IF kValue.err THEN [key |-> <<>>, err |-> TRUE, b |-> kValue.b]
       ELSE LET vValue == toStrInt(kValue.b, entries[keys[i]]) IN
            IF vValue.err THEN [key |-> <<>>, err |-> TRUE, b |-> vValue.b]
            ELSE toStrMap(vValue.b, entries, keys, i + 1,
                          acc \o (IF i > 1 THEN <<",", " ">> ELSE <<>>)
                              \o kValue.key \o <<":">> \o vValue.key)

toStr(b, v, keys) ==
  IF IsDone(b) THEN [key |-> <<>>, err |-> TRUE, b |-> b]
  ELSE IF v.kind = "slice" THEN toStrSlice(Pass(b), v.elems, 1, <<"[">>)
  ELSE toStrMap(Pass(b), v.entries, keys, 1, <<"{">>)

\* Set.toHash on a set of a composite element type.
toHashComplex(b, v, keys) == toStr(b, v, keys)

\* toHash of tools.go writes the text of each scalar it meets to the hash
\* and nothing in between; key is what has been written, which decides
\* the digest.
\* A leaf written with a separator in front of it.
toHashIntSeparated(b, n, written) ==
  IF IsDone(b) THEN [key |-> written, err |-> TRUE, b |-> b]
  ELSE [key |-> written \o <<",">> \o Sprintf(n), err |-> FALSE, b |-> Pass(b)]

toHashInt(b, n, written) ==
  IF IsDone(b) THEN [key |-> written, err |-> TRUE, b |-> b]
  ELSE [key |-> written \o Sprintf(n), err |-> FALSE, b |-> Pass(b)]

RECURSIVE toHashSlice(_, _, _, _)
toHashSlice(b, elems, i, written) ==
  IF i > Len(elems) THEN [key |-> written, err |-> FALSE, b |-> b]
  ELSE LET e == toHashInt(b, elems[i], written) IN
       IF e.err THEN e ELSE toHashSlice(e.b, elems, i + 1, e.key)

RECURSIVE toHashMap(_, _, _, _, _)
toHashMap(b, entries, keys, i, written) ==
  IF i > Len(keys) THEN [key |-> written, err |-> FALSE, b |-> b]
  ELSE LET k == toHashInt(b, keys[i], written) IN
       IF k.err THEN k
       ELSE LET e == toHashInt(k.b, entries[keys[i]], k.key) IN
            IF e.err THEN e ELSE toHashMap(e.b, entries, keys, i + 1, e.key)

toHashValue(b, v, keys) ==
  IF IsDone(b) THEN [key |-> <<>>, err |-> TRUE, b |-> b]
  ELSE IF v.kind = "slice" THEN toHashSlice(Pass(b), v.elems, 1, <<>>)
  ELSE toHashMap(Pass(b), v.entries, keys, 1, <<>>)

(***************************************************************************)
(* IsSimple.  The kinds of reflect, in the order of their constants:      *)
(* Kind(name) is the value of reflect.<name>.  Invalid is the kind of no  *)
(* type.                                                                   *)
(***************************************************************************)
KindNames ==
  <<"Invalid", "Bool", "Int", "Int8", "Int16", "Int32", "Int64", "Uint", "Uint8",
    "Uint16", "Uint32", "Uint64", "Uintptr", "Float32", "Float64", "Complex64",
    "Complex128", "Array", "Chan", "Func", "Interface", "Map", "Pointer", "Slice",
    "String", "Struct", "UnsafePointer">>

Kind(name) == (CHOOSE i \in 1 .. Len(KindNames) : KindNames[i] = name) - 1

Kinds == {KindNames[i] : i \in 2 .. Len(KindNames)}

\* IsSimple on a set whose field is cached and whose element type is of
\* kind k: what it returns and what it leaves in the field.
IsSimple(cached, k) ==
  IF cached # 0 THEN [val |-> cached = 1, simple |-> cached]
  ELSE IF k # "String" /\ Kind(k) >= Kind("Array") /\ Kind(k) <= Kind("Struct")
    THEN [val |-> FALSE, simple |-> -1]
  ELSE [val |-> TRUE, simple |-> 1]

IsComplex(cached, k) ==
  [val |-> ~IsSimple(cached, k).val, simple |-> IsSimple(cached, k).simple]

(***************************************************************************)
(* The state: a receiver set s and an argument set other, each with the   *)
(* default token given to NewWithContext, one explicit token shared by    *)
(* the ...WithContext calls, the reference set of the calls made on s,    *)
(* and what the last call returned.                                       *)
(***************************************************************************)
VARIABLES s, other, sDone, oDone, eDone, ref, ret

seqVars == <<s, other, sDone, oDone, eDone, ref, ret>>

\* Threads calling into the one set s at the same time, and whether the
\* runtime has stopped the process with a fatal error.
VARIABLES threads, fatal

concVars == <<threads, fatal>>

\* The fan-out of one Any/All call: the call, its workers, the verdict
\* they share, the call's own stop signal, and the two process-wide
\* tunables.
VARIABLES job, workers, found, stop, parallelTasks, minLoadPerGoroutine

parVars == <<job, workers, found, stop, parallelTasks, minLoadPerGoroutine>>

\* The bytes last produced by MarshalJSON or received from elsewhere.
VARIABLES wire

ioVars == <<wire>>

\* The kind of the element type T, and the field 'simple' of the set.
VARIABLES elemKind, simple

typeVars == <<elemKind, simple>>

\* Whether s and other are one and the same map.
VARIABLES aliased

heapVars == <<aliased>>

\* The number of times the call that returned last invoked the function the
\* caller supplied (predicate, transform or reducer).
VARIABLES calls

callVars == <<calls>>

vars == <<seqVars, concVars, parVars, ioVars, typeVars, heapVars, callVars>>

ArgSeqs == UNION {[1 .. n -> Items] : n \in 0 .. MaxArgs}

FnSeqs == UNION {[1 .. n -> Cmps] : n \in 0 .. MaxArgs}

Range(seq) == {seq[i] : i \in 1 .. Len(seq)}

\* What the token was when the call was made.
When(b) == IF b = 0 THEN "cancelled" ELSE IF b = Never THEN "live" ELSE "midway"

\* A plain method runs under the receiver's default token, the explicit
\* form under the shared explicit token; a token whose budget was finite
\* is cancelled by the end of the call.
Token(plain) == IF plain THEN sDone ELSE eDone

Spend(plain, b) ==
  /\ sDone' = (sDone \/ (plain /\ b # Never))
  /\ eDone' = (eDone \/ (~plain /\ b # Never))

\* The reference set follows the calls for as long as no token has been
\* cancelled; after that there is nothing left to compare and it is dropped.
Reference(b, set) == IF sDone \/ eDone \/ b # Never THEN {} ELSE set

\* What a call returns, by the type of its result: a boolean, a number,
\* a slice or a set; the fields of the other types hold their zero value.
BoolOps == {"Contains", "IsSubset", "IsSuperset", "Any", "All", "IsSimple", "IsComplex"}

NumOps == {"Reduce", "ReduceWithContext", "ParallelTasks"}

ListOps == {"Elements", "Sorted", "Filtered"}

Value(op, v) ==
  [flag |-> IF op \in BoolOps THEN v ELSE FALSE,
   num |-> IF op \in NumOps THEN v ELSE 0,
   list |-> IF op \in ListOps THEN v ELSE <<>>,
   set |-> IF op \in BoolOps \cup NumOps \cup ListOps THEN EmptyHeap ELSE v]

\* The arguments of a call: items, or the names of caller-supplied functions.
Arg(items, fns) == [items |-> items, fns |-> fns]

NoArg == Arg(<<>>, <<>>)

\* A plain method drops the error of its explicit form.
Returned(op, plain, b, arg, r) ==
  [op |-> op, plain |-> plain, tok |-> When(b), pre |-> s, arg |-> arg,
   val |-> Value(op, r.val), err |-> IF plain THEN FALSE ELSE r.err]

Mutated(op, plain, b, arg, r) ==
  [op |-> op, plain |-> plain, tok |-> When(b), pre |-> s, arg |-> arg,
   val |-> Value(op, r.heap), err |-> IF plain THEN FALSE ELSE r.err]

\* No result is pending: the caller has taken what the last call returned.
NoResult ==
  [op |-> "none", plain |-> TRUE, tok |-> "live", pre |-> EmptyHeap,
   arg |-> NoArg, val |-> Value("none", EmptyHeap), err |-> FALSE]

Idle == ret.op = "none"

\* The threads of the process; none has called into the set yet.
Threads == 1 .. NumThreads

NoCall ==
  [pc |-> "idle", op |-> "none", item |-> 0, raced |-> FALSE,
   out |-> Value("none", EmptyHeap)]

NoThreads == threads = [t \in Threads |-> NoCall] /\ fatal = FALSE

\* No Any/All call is fanned out; the tunables have the values the package
\* gives them when it is loaded.
NoJob == [op |-> "none", plain |-> TRUE, fn |-> "none", elements |-> <<>>, was |-> FALSE]

NoFanOut ==
  /\ job = NoJob /\ workers = <<>> /\ stop = FALSE
  /\ found = [value |-> FALSE, err |-> FALSE]
  /\ parallelTasks = NumCPU * 2
  /\ minLoadPerGoroutine = 1024

\* NewWithContext calls IsSimple, which fills the field 'simple'.
TypeIs(k) == elemKind = k /\ simple = IsSimple(0, k).simple

\* New(itemsS...) for the receiver and New(itemsO...) for the argument set.
Constructed(itemsS, itemsO) ==
  /\ s = New(itemsS)
  /\ other = New(itemsO)
  /\ sDone = FALSE
  /\ oDone = FALSE
  /\ eDone = FALSE
  /\ wire = <<>>
  /\ aliased = FALSE
  /\ calls = 0
  /\ ret = [op |-> "New", plain |-> TRUE, tok |-> "live", pre |-> EmptyHeap,
            arg |-> Arg(itemsS, <<>>), val |-> Value("New", New(itemsS)),
            err |-> FALSE]

\* The reference set starts with the elements given to New.
Init ==
  \E itemsS \in ArgSeqs, itemsO \in ArgSeqs :
    /\ Constructed(itemsS, itemsO)
    /\ ref = Range(itemsS)
    /\ NoThreads /\ NoFanOut /\ TypeIs("Int")

\* cancel() of one of the three tokens.
CancelS ==
  /\ Idle /\ ~sDone
  /\ sDone' = TRUE /\ ref' = {} /\ UNCHANGED <<s, other, oDone, eDone, ret, concVars, parVars, ioVars, typeVars, heapVars, callVars>>

CancelO ==
  /\ Idle /\ ~oDone
  /\ oDone' = TRUE /\ UNCHANGED <<s, other, sDone, eDone, ref, ret, concVars, parVars, ioVars, typeVars, heapVars, callVars>>

CancelE ==
  /\ Idle /\ ~eDone
  /\ eDone' = TRUE /\ ref' = {} /\ UNCHANGED <<s, other, sDone, oDone, ret, concVars, parVars, ioVars, typeVars, heapVars, callVars>>

\* The caller takes the result of the last call.
Return ==
  /\ ~Idle
  /\ ret' = NoResult
  /\ calls' = 0
  /\ UNCHANGED <<s, other, sDone, oDone, eDone, ref, concVars, parVars, ioVars, typeVars, heapVars>>

\* A write to the receiver's map shows in other if the two are one map.
Alias(heap) == other' = IF aliased THEN heap ELSE other

\* Add(items...) and addWithContext(ctx, items...).
Add ==
  /\ Idle
  /\ \E plain \in BOOLEAN, items \in ArgSeqs : \E b \in Budgets(Token(plain)) :
       LET r == addWithContext(s, b, items) IN
       /\ s' = r.heap
       /\ ref' = Reference(b, ref \cup Range(items))
       /\ ret' = Mutated("Add", plain, b, Arg(items, <<>>), r)
       /\ Spend(plain, b)
       /\ Alias(r.heap)
       /\ UNCHANGED <<oDone, concVars, parVars, ioVars, typeVars, heapVars, callVars>>

Delete ==
  /\ Idle
  /\ \E plain \in BOOLEAN, items \in ArgSeqs : \E b \in Budgets(Token(plain)) :
       LET r == deleteWithContext(s, b, items) IN
       /\ s' = r.heap
       /\ ref' = Reference(b, ref \ Range(items))
       /\ ret' = Mutated("Delete", plain, b, Arg(items, <<>>), r)
       /\ Spend(plain, b)
       /\ Alias(r.heap)
       /\ UNCHANGED <<oDone, concVars, parVars, ioVars, typeVars, heapVars, callVars>>

ClearSet ==
  /\ Idle
  /\ s' = Clear(s)
  /\ ref' = Reference(Never, {})
  /\ ret' = [op |-> "Clear", plain |-> TRUE, tok |-> "live", pre |-> s,
             arg |-> NoArg, val |-> Value("Clear", Clear(s)), err |-> FALSE]
  /\ Alias(Clear(s))
  /\ UNCHANGED <<sDone, oDone, eDone, concVars, parVars, ioVars, typeVars, heapVars, callVars>>

\* Overwrite(items...) is Clear then addWithContext(s.ctx, items...), the
\* same steps as overwriteWithContext.
Overwrite ==
  /\ Idle
  /\ \E plain \in BOOLEAN, items \in ArgSeqs : \E b \in Budgets(Token(plain)) :
       LET r == overwriteWithContext(s, b, items) IN
       /\ s' = r.heap
       /\ ref' = Reference(b, Range(items))
       /\ ret' = Mutated("Overwrite", plain, b, Arg(items, <<>>), r)
       /\ Spend(plain, b)
       /\ Alias(r.heap)
       /\ UNCHANGED <<oDone, concVars, parVars, ioVars, typeVars, heapVars, callVars>>

\* Append(other) / Extend([other]) and their explicit forms.
AppendSets ==
  /\ Idle
  /\ \E plain \in BOOLEAN, ord \in Orders(other) : \E b \in Budgets(Token(plain)) :
       LET r == appendWithContext(s, <<other>>, <<ord>>, b) IN
       /\ s' = r.heap
       /\ ref' = Reference(b, ref \cup Values(other))
       /\ ret' = Mutated("Append", plain, b, NoArg, r)
       /\ Spend(plain, b)
       /\ Alias(r.heap)
       /\ UNCHANGED <<oDone, concVars, parVars, ioVars, typeVars, heapVars, callVars>>

\* Where a call builds the set it returns. Every call that returns a set
\* starts with result := New[T]() and adds to that set only.
TargetReceiver(op) == "receiver"

Target(op) == "result"

\* A set object after the call: overwritten if the call built its result
\* in it, as it was otherwise.
After(op, object, heap, r) ==
  IF Target(op) = object /\ op \notin BoolOps \cup NumOps \cup ListOps
    THEN r.val ELSE heap

\* The invocations of the caller's function a call made, if it takes one.
Invocations(r) == IF "calls" \in DOMAIN r THEN r.calls ELSE 0

\* A call that returns r; it reads the receiver and the argument.
Query(op, plain, b, arg, r) ==
  /\ ret' = Returned(op, plain, b, arg, r)
  /\ Spend(plain, b)
  /\ s' = After(op, "receiver", s, r)
  /\ other' = After(op, "argument", other, r)
  /\ calls' = Invocations(r)
  /\ UNCHANGED <<oDone, ref, concVars, parVars, ioVars, typeVars, heapVars>>

ContainsItem ==
  /\ Idle
  /\ \E plain \in BOOLEAN, item \in Items : \E b \in Budgets(Token(plain)) :
       Query("Contains", plain, b, Arg(<<item>>, <<>>), containsWithContext(s, b, item))

Elements ==
  /\ Idle
  /\ \E plain \in BOOLEAN, ord \in Orders(s) : \E b \in Budgets(Token(plain)) :
       Query("Elements", plain, b, NoArg, elementsWithContext(s, ord, b))

Sorted ==
  /\ Idle
  /\ \E plain \in BOOLEAN, ord \in Orders(s), fns \in FnSeqs :
       \E b \in Budgets(Token(plain)), out \in SortOutcomes(s, fns) :
         Query("Sorted", plain, b, Arg(<<>>, fns), sortedWithContext(s, ord, b, out))

Filtered ==
  /\ Idle
  /\ \E plain \in BOOLEAN, ord \in Orders(s), fn \in Preds :
       \E b \in Budgets(Token(plain)) :
         Query("Filtered", plain, b, Arg(<<>>, <<fn>>), filteredWithContext(s, ord, b, fn))

Union ==
  /\ Idle
  /\ \E plain \in BOOLEAN, ordS \in Orders(s), ordO \in Orders(other) :
       \E b \in Budgets(Token(plain)) :
         Query("Union", plain, b, NoArg, unionWithContext(s, other, ordS, ordO, b))

Intersection ==
  /\ Idle
  /\ \E plain \in BOOLEAN, ord \in Orders(s) : \E b \in Budgets(Token(plain)) :
       Query("Intersection", plain, b, NoArg, intersectionWithContext(s, other, ord, b))

Difference ==
  /\ Idle
  /\ \E plain \in BOOLEAN, ord \in Orders(s) : \E b \in Budgets(Token(plain)) :
       Query("Difference", plain, b, NoArg,
             differenceWithContext(s, other, oDone, ord, b))

SymmetricDifference ==
  /\ Idle
  /\ \E plain \in BOOLEAN, ordS \in Orders(s), ordO \in Orders(other) :
       \E b \in Budgets(Token(plain)) :
         Query("SymmetricDifference", plain, b, NoArg,
               symmetricDifferenceWithContext(s, sDone, other, oDone, ordS, ordO, b))

Map ==
  /\ Idle
  /\ \E plain \in BOOLEAN, ord \in Orders(s), fn \in MapFns :
       \E b \in Budgets(Token(plain)) :
         Query("Map", plain, b, Arg(<<>>, <<fn>>), mapWithContext(s, ord, b, fn))

\* Set.Reduce and Set.reduceWithContext.
ReduceSet ==
  /\ Idle
  /\ \E plain \in BOOLEAN, ord \in Orders(s) : \E b \in Budgets(Token(plain)) :
       Query("Reduce", plain, b, NoArg,
             IF plain THEN [val |-> Reduce(s, ord), err |-> FALSE]
             ELSE reduceWithContext(s, ord, b))

\* The free function ReduceWithContext(ctx, s, fn).
FreeReduce ==
  /\ Idle
  /\ \E ord \in Orders(s) : \E b \in Budgets(eDone) :
       Query("ReduceWithContext", FALSE, b, NoArg, ReduceWithContext(s, ord, b))

\* The free function MapWithContext(ctx, s, fn).
FreeMap ==
  /\ Idle
  /\ \E ord \in Orders(s), fn \in MapFns : \E b \in Budgets(eDone) :
       Query("MapWithContext", FALSE, b, Arg(<<>>, <<fn>>), MapWithContext(s, ord, b, fn))

\* The free function FilterWithContext(ctx, s, fn).
FreeFilter ==
  /\ Idle
  /\ \E ord \in Orders(s), fn \in Preds : \E b \in Budgets(eDone) :
       Query("FilterWithContext", FALSE, b, Arg(<<>>, <<fn>>),
             FilterWithContext(s, ord, b, fn))

Copy ==
  /\ Idle
  /\ \E plain \in BOOLEAN, ord \in Orders(s) : \E b \in Budgets(Token(plain)) :
       Query("Copy", plain, b, NoArg, copyWithContext(s, ord, b))

Filter ==
  /\ Idle
  /\ \E plain \in BOOLEAN, ord \in Orders(s), fn \in Preds :
       \E b \in Budgets(Token(plain)) :
         Query("Filter", plain, b, Arg(<<>>, <<fn>>), filterWithContext(s, ord, b, fn))

IsSubset ==
  /\ Idle
  /\ \E plain \in BOOLEAN, ord \in Orders(s) : \E b \in Budgets(Token(plain)) :
       Query("IsSubset", plain, b, NoArg, isSubsetWithContext(s, other, oDone, ord, b))

IsSuperset ==
  /\ Idle
  /\ \E plain \in BOOLEAN, ord \in Orders(other) : \E b \in Budgets(Token(plain)) :
       Query("IsSuperset", plain, b, NoArg, isSupersetWithContext(s, other, ord, b))

Any ==
  /\ Idle
  /\ \E plain \in BOOLEAN, ord \in Orders(s), fn \in Preds :
       \E b \in Budgets(Token(plain)) :
         Query("Any", plain, b, Arg(<<>>, <<fn>>), anyWithContext(s, ord, b, fn))

All ==
  /\ Idle
  /\ \E plain \in BOOLEAN, ord \in Orders(s), fn \in Preds :
       \E b \in Budgets(Token(plain)) :
         Query("All", plain, b, Arg(<<>>, <<fn>>), allWithContext(s, ord, b, fn))

\* The queries: no call changes s or other.
InitOps ==
  \E itemsS \in ArgSeqs, itemsO \in ArgSeqs :
    /\ Constructed(itemsS, itemsO)
    /\ ref = {}
    /\ NoThreads /\ NoFanOut /\ TypeIs("Int")

Queries ==
  \/ ContainsItem \/ Elements \/ Sorted \/ Filtered
  \/ Union \/ Intersection \/ Difference \/ SymmetricDifference
  \/ Map \/ ReduceSet \/ FreeReduce \/ FreeMap \/ FreeFilter \/ Copy \/ Filter
  \/ IsSubset \/ IsSuperset \/ Any \/ All

NextOps == CancelS \/ CancelO \/ CancelE \/ Return \/ Queries

SpecOps == InitOps /\ [][NextOps]_vars

(***************************************************************************)
(* The free functions of fn.go, called on the receiver and on up to       *)
(* MaxSets further sets, each of them the receiver or the argument set.   *)
(* The plain form passes a nil context, which is never cancelled.         *)
(***************************************************************************)
SetNames == {"s", "other"}

SetSeqs == UNION {[1 .. n -> SetNames] : n \in 0 .. MaxSets}

Named(name) == IF name = "s" THEN s ELSE other

Others(names) == [n \in 1 .. Len(names) |-> Named(names[n])]

OrdersOf(names, ordS, ordO) ==
  [n \in 1 .. Len(names) |-> IF names[n] = "s" THEN ordS ELSE ordO]

FreeBudgets(plain) == IF plain THEN {Never} ELSE Budgets(eDone)

FreeUnion ==
  /\ Idle
  /\ \E plain \in BOOLEAN, names \in SetSeqs, ordS \in Orders(s), ordO \in Orders(other) :
       \E b \in FreeBudgets(plain) :
         Query("UnionWithContext", plain, b, Arg(<<>>, names),
               UnionWithContext(s, Others(names), ordS, OrdersOf(names, ordS, ordO), b))

FreeIntersection ==
  /\ Idle
  /\ \E plain \in BOOLEAN, names \in SetSeqs, ordS \in Orders(s) :
       \E b \in FreeBudgets(plain) :
         Query("IntersectionWithContext", plain, b, Arg(<<>>, names),
               IntersectionWithContext(s, Others(names), ordS, b))

FreeDifference ==
  /\ Idle
  /\ \E plain \in BOOLEAN, names \in SetSeqs, ordS \in Orders(s), ordO \in Orders(other) :
       \E b \in FreeBudgets(plain) :
         Query("DifferenceWithContext", plain, b, Arg(<<>>, names),
               DifferenceWithContext(s, Others(names), ordS, OrdersOf(names, ordS, ordO), b))

FreeSymmetricDifference ==
  /\ Idle
  /\ \E plain \in BOOLEAN, names \in SetSeqs, ordS \in Orders(s), ordO \in Orders(other) :
       \E b \in FreeBudgets(plain) :
         Query("SymmetricDifferenceWithContext", plain, b, Arg(<<>>, names),
               SymmetricDifferenceWithContext(s, Others(names), ordS,
                                              OrdersOf(names, ordS, ordO), b))

\* Every call that returns a value, and Append, which writes the receiver.
NextFn ==
  \/ CancelS \/ CancelE \/ Return \/ Queries \/ AppendSets
  \/ FreeUnion \/ FreeIntersection \/ FreeDifference \/ FreeSymmetricDifference

SpecFn == Init /\ [][NextFn]_vars

(***************************************************************************)
(* Serialization: a set is encoded onto the wire, text arrives from       *)
(* elsewhere, and the receiver is decoded from what is on the wire.       *)
(***************************************************************************)
\* Text from elsewhere: arrays with or without duplicates, whole or cut short.
Texts ==
  {EncodeArray(items) : items \in ArgSeqs}
    \cup {SubSeq(EncodeArray(items), 1, Len(EncodeArray(items)) - 1) : items \in ArgSeqs}

Marshal ==
  /\ Idle
  /\ \E name \in {"s", "other"} : \E ord \in Orders(IF name = "s" THEN s ELSE other) :
       /\ wire' = MarshalJSON(IF name = "s" THEN s ELSE other, ord)
       /\ ret' = [op |-> "MarshalJSON", plain |-> FALSE, tok |-> "live", pre |-> s,
                  arg |-> Arg(<<>>, <<name>>), val |-> Value("MarshalJSON", EmptyHeap),
                  err |-> FALSE]
  /\ UNCHANGED <<s, other, sDone, oDone, eDone, ref, concVars, parVars, typeVars, heapVars, callVars>>

Receive ==
  /\ Idle
  /\ wire' \in Texts
  /\ UNCHANGED <<seqVars, concVars, parVars, typeVars, heapVars, callVars>>

Unmarshal ==
  /\ Idle
  /\ \E cleared \in BOOLEAN : \E b \in Budgets(sDone) :
       LET r == UnmarshalJSON(s, b, wire, cleared) IN
       /\ s' = r.heap
       /\ ref' = Reference(b, Values(r.heap))
       /\ ret' = [op |-> "UnmarshalJSON", plain |-> FALSE, tok |-> When(b), pre |-> s,
                  arg |-> NoArg, val |-> Value("UnmarshalJSON", r.heap), err |-> r.err]
       /\ sDone' = (sDone \/ b # Never)
  /\ UNCHANGED <<other, oDone, eDone, concVars, parVars, ioVars, typeVars, heapVars, callVars>>

NextJSON == CancelS \/ Return \/ Marshal \/ Receive \/ Unmarshal

SpecJSON == Init /\ [][NextJSON]_vars

(***************************************************************************)
(* A set of composite elements: New[[]int]() or New[map[int]int](), and   *)
(* the calls Add, Contains and Delete with one element.  The set holds at *)
(* most MaxHeld entries.                                                   *)
(***************************************************************************)
Composites ==
  {SliceOf([i \in 1 .. n |-> i]) : n \in 0 .. MaxEntries}
    \cup {MapOf([k \in D |-> k + 1]) : D \in SUBSET (1 .. MaxEntries)}

InitHash ==
  /\ Constructed(<<>>, <<>>)
  /\ ref = {}
  /\ NoThreads /\ NoFanOut /\ TypeIs("Interface")

\* addWithContext(ctx, v) for one composite element.
AddValue ==
  /\ Idle /\ Cardinality(DOMAIN s) < MaxHeld
  /\ \E plain \in BOOLEAN, v \in Composites : \E keys \in MapKeys(v), b \in Budgets(Token(plain)) :
       LET p == IF IsDone(b) THEN [key |-> <<>>, err |-> TRUE, b |-> b]
                ELSE toHashComplex(Pass(b), v, keys) IN
       /\ s' = IF p.err THEN s ELSE Put(s, p.key, v)
       /\ ret' = Mutated("Add", plain, b, Arg(<<v>>, <<>>),
                         [heap |-> IF p.err THEN s ELSE Put(s, p.key, v), err |-> p.err])
       /\ Spend(plain, b)
       /\ UNCHANGED <<other, oDone, ref, concVars, parVars, ioVars, typeVars, heapVars, callVars>>

\* deleteWithContext(ctx, v) for one composite element.
DeleteValue ==
  /\ Idle
  /\ \E plain \in BOOLEAN, v \in Composites : \E keys \in MapKeys(v), b \in Budgets(Token(plain)) :
       LET p == IF IsDone(b) THEN [key |-> <<>>, err |-> TRUE, b |-> b]
                ELSE toHashComplex(Pass(b), v, keys) IN
       /\ s' = IF p.err THEN s ELSE Del(s, p.key)
       /\ ret' = Mutated("Delete", plain, b, Arg(<<v>>, <<>>),
                         [heap |-> IF p.err THEN s ELSE Del(s, p.key), err |-> p.err])
       /\ Spend(plain, b)
       /\ UNCHANGED <<other, oDone, ref, concVars, parVars, ioVars, typeVars, heapVars, callVars>>

\* containsWithContext(ctx, v) for one composite element.
ContainsValue ==
  /\ Idle
  /\ \E plain \in BOOLEAN, v \in Composites : \E keys \in MapKeys(v), b \in Budgets(Token(plain)) :
       LET p == toHashComplex(b, v, keys) IN
       Query("Contains", plain, b, Arg(<<v>>, <<>>),
             [val |-> ~p.err /\ p.key \in DOMAIN s, err |-> p.err])

(***************************************************************************)
(* A set of slices of ints keyed by the digest of tools.go: the key is    *)
(* the digest of what toHash wrote, which the model stands for by the     *)
(* text written.  Slices of the leaves 1 and 11 include pairs whose       *)
(* texts concatenate to one string.                                       *)
(***************************************************************************)
Leaves == {1, 11}

Slices == {SliceOf(e) : e \in UNION {[1 .. n -> Leaves] : n \in 0 .. MaxEntries}}

\* addWithContext(ctx, v) on a set keyed by the digest.
AddDigest ==
  /\ Idle
  /\ \E plain \in BOOLEAN, v \in Slices : \E b \in Budgets(Token(plain)) :
       LET p == IF IsDone(b) THEN [key |-> <<>>, err |-> TRUE, b |-> b]
                ELSE toHashValue(Pass(b), v, <<>>) IN
       /\ p.err \/ p.key \in DOMAIN s \/ Cardinality(DOMAIN s) < MaxHeld
       /\ s' = IF p.err THEN s ELSE Put(s, p.key, v)
       /\ ret' = Mutated("Add", plain, b, Arg(<<v>>, <<>>),
                         [heap |-> IF p.err THEN s ELSE Put(s, p.key, v), err |-> p.err])
       /\ Spend(plain, b)
       /\ UNCHANGED <<other, oDone, ref, concVars, parVars, ioVars, typeVars, heapVars, callVars>>

NextDigest == CancelS \/ CancelE \/ Return \/ AddDigest

SpecDigest == InitHash /\ [][NextDigest]_vars

NextHash == CancelS \/ CancelE \/ Return \/ AddValue \/ DeleteValue \/ ContainsValue

SpecHash == InitHash /\ [][NextHash]_vars

(***************************************************************************)
(* Sets of every element type: IsSimple and IsComplex.  A set made by New *)
(* has the field 'simple' filled; the zero value Set[T]{} has it at 0.    *)
(***************************************************************************)
InitKind ==
  \E k \in Kinds :
    /\ Constructed(<<>>, <<>>)
    /\ ref = {}
    /\ NoThreads /\ NoFanOut
    /\ elemKind = k
    /\ simple \in {0, IsSimple(0, k).simple}

CallIsSimple ==
  /\ Idle
  /\ simple' = IsSimple(simple, elemKind).simple
  /\ ret' = Returned("IsSimple", TRUE, Never, NoArg, IsSimple(simple, elemKind))
  /\ UNCHANGED <<s, other, sDone, oDone, eDone, ref, concVars, parVars, ioVars, elemKind, heapVars, callVars>>

CallIsComplex ==
  /\ Idle
  /\ simple' = IsComplex(simple, elemKind).simple
  /\ ret' = Returned("IsComplex", TRUE, Never, NoArg, IsComplex(simple, elemKind))
  /\ UNCHANGED <<s, other, sDone, oDone, eDone, ref, concVars, parVars, ioVars, elemKind, heapVars, callVars>>

NextKind == CancelS \/ Return \/ CallIsSimple \/ CallIsComplex

SpecKind == InitKind /\ [][NextKind]_vars

(***************************************************************************)
(* copied := s.Copy(): other becomes the set Copy returned, and the       *)
(* caller goes on writing to the original and to the copy.  The copy is   *)
(* made by New[T](), so its default token is never cancelled.             *)
(***************************************************************************)
\* A result built in the receiver would be the receiver's own map.
AliasedAlways(op) == TRUE

Aliased(op) == Target(op) = "receiver"

InitCopy ==
  \E itemsS \in ArgSeqs :
    /\ Constructed(itemsS, <<>>)
    /\ ref = Range(itemsS)
    /\ NoThreads /\ NoFanOut /\ TypeIs("Int")

KeepCopy ==
  /\ Idle
  /\ \E plain \in BOOLEAN, ord \in Orders(s) : \E b \in Budgets(Token(plain)) :
       LET r == copyWithContext(s, ord, b) IN
       /\ other' = r.val
       /\ oDone' = FALSE
       /\ aliased' = Aliased("Copy")
       /\ ret' = Returned("Copy", plain, b, NoArg, r)
       /\ Spend(plain, b)
  /\ UNCHANGED <<s, ref, concVars, parVars, ioVars, typeVars, callVars>>

\* A call on the copy returns r; a write to its map shows in s if the two
\* are one map.
OnCopy(op, items, r) ==
  /\ other' = r.heap
  /\ s' = IF aliased THEN r.heap ELSE s
  /\ ret' = [op |-> op, plain |-> TRUE, tok |-> "live", pre |-> s,
             arg |-> Arg(items, <<"copy">>), val |-> Value(op, r.heap), err |-> FALSE]
  /\ UNCHANGED <<sDone, oDone, eDone, ref, concVars, parVars, ioVars, typeVars, heapVars, callVars>>

AddCopy ==
  /\ Idle
  /\ \E items \in ArgSeqs : OnCopy("Add", items, addWithContext(other, Never, items))

DeleteCopy ==
  /\ Idle
  /\ \E items \in ArgSeqs : OnCopy("Delete", items, deleteWithContext(other, Never, items))

ClearCopy ==
  /\ Idle
  /\ OnCopy("Clear", <<>>, [heap |-> Clear(other)])

OverwriteCopy ==
  /\ Idle
  /\ \E items \in ArgSeqs : OnCopy("Overwrite", items, overwriteWithContext(other, Never, items))

NextCopy ==
  \/ CancelS \/ CancelE \/ Return \/ KeepCopy
  \/ Add \/ Delete \/ ClearSet \/ Overwrite
  \/ AddCopy \/ DeleteCopy \/ ClearCopy \/ OverwriteCopy

SpecCopy == InitCopy /\ [][NextCopy]_vars

\* The mutators of the receiver.
(***************************************************************************)
(* A receiver made by NewWithContext(ctx, items...) with a token that may *)
(* be cancelled already, or be cancelled while the items are added.  The  *)
(* constructor classifies the element type, adds the items with the plain *)
(* Add and returns the set: it has no error to return.                    *)
(***************************************************************************)
InitNew ==
  \E items \in ArgSeqs, done \in BOOLEAN : \E b \in Budgets(done) :
    /\ s = NewWithContext(b, items)
    /\ sDone = (b # Never)
    /\ other = New(<<>>)
    /\ oDone = FALSE
    /\ eDone = FALSE
    /\ wire = <<>>
    /\ aliased = FALSE
    /\ calls = 0
    /\ ret = [op |-> "NewWithContext", plain |-> TRUE, tok |-> When(b), pre |-> EmptyHeap,
              arg |-> Arg(items, <<>>), val |-> Value("NewWithContext", NewWithContext(b, items)),
              err |-> FALSE]
    /\ ref = {}
    /\ NoThreads /\ NoFanOut /\ TypeIs("Int")

NextNew ==
  \/ CancelS \/ CancelE \/ Return
  \/ Add \/ Delete \/ ClearSet \/ Overwrite

SpecNew == InitNew /\ [][NextNew]_vars

Next ==
  \/ CancelS \/ CancelE \/ Return
  \/ Add \/ Delete \/ ClearSet \/ Overwrite \/ AppendSets

Spec == Init /\ [][Next]_vars

(***************************************************************************)
(* Several threads on one set.  The Set struct holds the map, the         *)
(* identity mode and the default token and nothing else, so a call goes   *)
(* straight to the map: it computes the key, then reads or writes the     *)
(* map, and no step of it waits for another thread.  A map access takes   *)
(* time (Enter .. Leave).  An access that overlaps a write of another     *)
(* thread is a data race: the write may be applied or lost, the read may  *)
(* see the map or nothing, or the runtime stops the process ("concurrent  *)
(* map writes", "concurrent map read and map write").                     *)
(***************************************************************************)
Writers == {"Add", "Delete"}

Readers == {"Contains", "Len", "Elements"}

Inside(t) == threads[t].pc = "inside"

IsWrite(t) == threads[t].op \in Writers

Conflict(t, u) == t # u /\ Inside(u) /\ (IsWrite(t) \/ IsWrite(u))

\* What the map access of thread t does when nothing disturbs it.
Written(heap, c) ==
  IF c.op = "Add" THEN Put(heap, Sprintf(c.item), c.item)
  ELSE IF c.op = "Delete" THEN Del(heap, Sprintf(c.item))
  ELSE heap

Read(heap, c) ==
  IF c.op = "Contains" THEN Value(c.op, Sprintf(c.item) \in DOMAIN heap)
  ELSE IF c.op = "Len" THEN [Value("none", EmptyHeap) EXCEPT !.num = Cardinality(DOMAIN heap)]
  ELSE IF c.op = "Elements" THEN [Value("none", EmptyHeap) EXCEPT !.set = heap]
  ELSE Value("none", EmptyHeap)

\* Thread t calls op(item): the key is computed from the item alone.
Call(t) ==
  /\ ~fatal /\ threads[t].pc = "idle"
  /\ \E op \in Writers \cup Readers, item \in Items :
       threads' = [threads EXCEPT ![t] =
                     [NoCall EXCEPT !.pc = "called", !.op = op,
                                    !.item = IF op \in {"Len", "Elements"} THEN 0 ELSE item]]
  /\ UNCHANGED <<seqVars, fatal, parVars, ioVars, typeVars, heapVars, callVars>>

\* Thread t starts its access to the map; nothing makes it wait.
Enter(t) ==
  /\ ~fatal /\ threads[t].pc = "called"
  /\ threads' = [u \in Threads |->
                   IF u = t
                     THEN [threads[t] EXCEPT !.pc = "inside",
                                             !.raced = \E v \in Threads : Conflict(t, v)]
                     ELSE IF Conflict(t, u) THEN [threads[u] EXCEPT !.raced = TRUE]
                     ELSE threads[u]]
  /\ UNCHANGED <<seqVars, fatal, parVars, ioVars, typeVars, heapVars, callVars>>

\* Thread t ends its access.  Undisturbed, it has its effect; raced, the
\* write is applied or lost and the read sees the map or nothing.
Leave(t) ==
  /\ ~fatal /\ Inside(t)
  /\ \E kept \in (IF threads[t].raced THEN BOOLEAN ELSE {TRUE}) :
       /\ s' = IF kept THEN Written(s, threads[t]) ELSE s
       /\ threads' = [threads EXCEPT ![t].pc = "done",
                        ![t].out = IF kept THEN Read(s, threads[t])
                                   ELSE Value("none", EmptyHeap)]
  /\ UNCHANGED <<other, sDone, oDone, eDone, ref, ret, fatal, parVars, ioVars, typeVars, heapVars, callVars>>

\* The runtime notices the race of thread t and stops the process.
Fatal(t) ==
  /\ ~fatal /\ Inside(t) /\ threads[t].raced
  /\ fatal' = TRUE
  /\ UNCHANGED <<seqVars, threads, parVars, ioVars, typeVars, heapVars, callVars>>

InitConc ==
  \E itemsS \in ArgSeqs :
    /\ Constructed(itemsS, <<>>)
    /\ ref = {}
    /\ NoThreads /\ NoFanOut /\ TypeIs("Int")

NextConc == \E t \in Threads : Call(t) \/ Enter(t) \/ Leave(t) \/ Fatal(t)

SpecConc == InitConc /\ [][NextConc]_vars

(***************************************************************************)
(* The worker pool and the fan-out of Any and All.                        *)
(***************************************************************************)
maxParallelTasks == NumCPU * 3

\* The type int, IntWidth bits wide: an addition that leaves the range
\* wraps around.
MinInt == 0 - 2 ^ (IntWidth - 1)

MaxInt == 2 ^ (IntWidth - 1) - 1

Wrap(n) == ((n - MinInt) % 2 ^ IntWidth) + MinInt

\* n := 0; for _, value := range v { n += value }
RECURSIVE Sum(_)
Sum(v) == IF v = <<>> THEN 0 ELSE Wrap(v[1] + Sum(Tail(v)))

\* ParallelTasks(v...): the new pool size, the old one when v is empty.
ParallelTasks(v) ==
  IF Len(v) > 0
    THEN LET n == Sum(v) IN
         IF n <= 0 THEN 1
         ELSE IF n > maxParallelTasks THEN maxParallelTasks
         ELSE n
    ELSE parallelTasks

\* A verdict setter that stores the error and forgets the value.
SetValueErrOnly(f, value, err) == [f EXCEPT !.err = err]

\* logicFoundValue.SetValue and GetValue, each under the value's mutex.
SetValue(f, value, err) == [f EXCEPT !.value = value, !.err = err]

GetValue(f) == [val |-> f.value, err |-> f.err]

\* Contiguous chunks, one per worker.
ChunkSize(n, p) == (n + p - 1) \div p

Least(a, b) == IF a < b THEN a ELSE b

Pool(n) ==
  IF n > minLoadPerGoroutine
    THEN (IF parallelTasks > 1 THEN parallelTasks ELSE 1)
    ELSE 1

\* A worker whose chunk is empty has nothing to run.
Chunks(n, p) ==
  [i \in 1 .. p |->
     LET first == (i - 1) * ChunkSize(n, p) + 1
         last == Least(i * ChunkSize(n, p), n) IN
     [pc |-> IF first > last THEN "done" ELSE "poll", next |-> first, last |-> last]]

\* The element a worker looks for: one that satisfies fn (Any), one that
\* violates it (All).
Decides(op, fn, x) == IF op = "Any" THEN Pred(fn, x) ELSE ~Pred(fn, x)

Running == job.op # "none"

Finished(w) == w.pc \in {"done", "published"}

TunePool ==
  /\ Idle /\ ~Running
  /\ \E v \in UNION {[1 .. n -> -1 .. maxParallelTasks + 1] : n \in 0 .. 2} :
       parallelTasks' = ParallelTasks(v)
  /\ UNCHANGED <<seqVars, concVars, job, workers, found, stop, minLoadPerGoroutine, ioVars, typeVars, heapVars, callVars>>

\* Any(fn), All(fn) and their explicit forms: the elements are split among
\* the workers, which start on a verdict of "not found" / "none violates".
FanOut ==
  /\ Idle /\ ~Running
  /\ \E op \in {"Any", "All"}, plain \in BOOLEAN, fn \in Preds, ord \in Orders(s) :
       /\ job' = [op |-> op, plain |-> plain, fn |-> fn,
                  elements |-> InOrder(s, ord), was |-> Token(plain)]
       /\ workers' = Chunks(Len(ord), Pool(Len(ord)))
       /\ found' = [value |-> op = "All", err |-> FALSE]
       /\ stop' = FALSE
  /\ UNCHANGED <<seqVars, concVars, parallelTasks, minLoadPerGoroutine, ioVars, typeVars, heapVars, callVars>>

\* One turn of a worker's loop: it ends at the end of its chunk, reports
\* the error when the call's token is signalled, stops early once another
\* worker has published, and otherwise applies fn to its next element.
Scan(i) ==
  /\ Running /\ i \in DOMAIN workers /\ workers[i].pc = "poll"
  /\ IF workers[i].next > workers[i].last
       THEN workers' = [workers EXCEPT ![i].pc = "done"] /\ found' = found
       ELSE IF Token(job.plain)
         THEN /\ found' = SetValue(found, FALSE, TRUE)
              /\ workers' = [workers EXCEPT ![i].pc = "done"]
         ELSE IF stop
           THEN workers' = [workers EXCEPT ![i].pc = "done"] /\ found' = found
           ELSE /\ found' = found
                /\ workers' =
                     IF Decides(job.op, job.fn, job.elements[workers[i].next])
                       THEN [workers EXCEPT ![i].pc = "publish"]
                       ELSE [workers EXCEPT ![i].next = @ + 1]
  /\ UNCHANGED <<seqVars, concVars, job, stop, parallelTasks, minLoadPerGoroutine, ioVars, typeVars, heapVars, callVars>>

\* The worker publishes its verdict and signals the others to stop.
Publish(i) ==
  /\ Running /\ i \in DOMAIN workers /\ workers[i].pc = "publish"
  /\ found' = SetValue(found, job.op = "Any", FALSE)
  /\ stop' = TRUE
  /\ workers' = [workers EXCEPT ![i].pc = "published"]
  /\ UNCHANGED <<seqVars, concVars, job, parallelTasks, minLoadPerGoroutine, ioVars, typeVars, heapVars, callVars>>

\* All workers have ended: the call returns the shared verdict.
Join ==
  /\ Running /\ \A i \in DOMAIN workers : Finished(workers[i])
  /\ ret' = [op |-> job.op, plain |-> job.plain,
             tok |-> IF ~Token(job.plain) THEN "live"
                     ELSE IF job.was THEN "cancelled" ELSE "midway",
             pre |-> s, arg |-> Arg(<<>>, <<job.fn>>),
             val |-> Value(job.op, GetValue(found).val),
             err |-> IF job.plain THEN FALSE ELSE GetValue(found).err]
  /\ job' = NoJob /\ workers' = <<>> /\ stop' = FALSE
  /\ found' = [value |-> FALSE, err |-> FALSE]
  /\ UNCHANGED <<s, other, sDone, oDone, eDone, ref, concVars,
                 parallelTasks, minLoadPerGoroutine, ioVars, typeVars, heapVars, callVars>>

ParItems == 2 .. (MaxElems + 1)

ParSeqs == {[i \in 1 .. n |-> i + 1] : n \in 0 .. MaxElems}

\* The threshold is a package variable that the tests assign.
InitPar ==
  \E itemsS \in ParSeqs, load \in 0 .. MaxLoad :
    /\ Constructed(itemsS, <<>>)
    /\ ref = {}
    /\ NoThreads /\ TypeIs("Int")
    /\ job = NoJob /\ workers = <<>> /\ stop = FALSE
    /\ found = [value |-> FALSE, err |-> FALSE]
    /\ parallelTasks = NumCPU * 2
    /\ minLoadPerGoroutine = load

NextPar ==
  \/ CancelE \/ Return \/ TunePool \/ FanOut \/ Join
  \/ \E i \in 1 .. maxParallelTasks : Scan(i) \/ Publish(i)

SpecPar == InitPar /\ [][NextPar]_vars

(***************************************************************************)
(* ParallelTasks called for its result: with no argument it reads the     *)
(* pool size, with arguments it sets it.  ret.val.list holds the pool     *)
(* size before the call.                                                  *)
(***************************************************************************)
IntSeqs == UNION {[1 .. n -> MinInt .. MaxInt] : n \in 0 .. MaxArgs}

InitTune ==
  /\ Constructed(<<>>, <<>>)
  /\ ref = {}
  /\ NoThreads /\ NoFanOut /\ TypeIs("Int")

CallParallelTasks ==
  /\ Idle
  /\ \E v \in IntSeqs :
       /\ parallelTasks' = ParallelTasks(v)
       /\ ret' = [op |-> "ParallelTasks", plain |-> TRUE, tok |-> "live", pre |-> s,
                  arg |-> Arg(v, <<>>),
                  val |-> [Value("ParallelTasks", ParallelTasks(v))
                             EXCEPT !.list = <<parallelTasks>>],
                  err |-> FALSE]
  /\ UNCHANGED <<s, other, sDone, oDone, eDone, ref, concVars, job, workers, found,
                 stop, minLoadPerGoroutine, ioVars, typeVars, heapVars, callVars>>

NextTune == Return \/ CallParallelTasks

SpecTune == InitTune /\ [][NextTune]_vars

TypeOK ==
  /\ Values(s) \subseteq Items \cup ParItems
  /\ Values(other) \subseteq Items
  /\ sDone \in BOOLEAN /\ oDone \in BOOLEAN /\ eDone \in BOOLEAN

Size(heap) == Cardinality(DOMAIN heap)

\* No token of the run has been cancelled.
AllLive == ~sDone /\ ~oDone /\ ~eDone

(***************************************************************************)
(* C1.  Add is idempotent: an Add whose elements are all present already  *)
(* leaves Len() unchanged, and however often an element is added, in one  *)
(* call or in successive calls, the set holds one entry for it.           *)
(***************************************************************************)
C1_AddIdempotent ==
  ret.op = "Add" =>
    /\ Range(ret.arg.items) \subseteq Values(ret.pre) => Size(s) = Size(ret.pre)
    /\ \A x \in Range(ret.arg.items) : Cardinality({k \in DOMAIN s : s[k] = x}) <= 1
    /\ ret.tok = "live" =>
         \A x \in Range(ret.arg.items) : Cardinality({k \in DOMAIN s : s[k] = x}) = 1

\* An element already in the set is added twice in one call.
C1_Witness ==
  /\ ret.op = "Add" /\ ret.tok = "live"
  /\ Len(ret.arg.items) = 2 /\ ret.arg.items[1] = ret.arg.items[2]
  /\ ret.arg.items[1] \in Values(ret.pre)
  /\ Size(s) = Size(ret.pre)

(***************************************************************************)
(* C2.  While no token has been cancelled, the set agrees with the        *)
(* reference set driven by the same Add, Delete, Clear and Overwrite      *)
(* calls: Contains(x) iff x is in the reference set, Len() is its         *)
(* cardinality, Delete of absent elements changes nothing, Clear leaves   *)
(* Len() = 0 and Overwrite leaves exactly the items given.                *)
(***************************************************************************)
C2_RefinesReferenceSet ==
  (~sDone /\ ~eDone) =>
    /\ \A x \in Items : Contains(s, sDone, x) <=> x \in ref
    /\ Size(s) = Cardinality(ref)
    /\ Values(s) = ref
    /\ (ret.op = "Delete" /\ Range(ret.arg.items) \cap Values(ret.pre) = {}) => s = ret.pre
    /\ ret.op = "Clear" => Size(s) = 0
    /\ ret.op = "Overwrite" => Values(s) = Range(ret.arg.items)

\* One of two elements has been deleted, the other is left.
C2_Witness ==
  /\ ~sDone /\ ~eDone
  /\ ret.op = "Delete" /\ Size(ret.pre) = 2 /\ Size(s) = 1
  /\ Values(s) = ref

(***************************************************************************)
(* C6.  Single-item addWithContext / deleteWithContext calls sharing one  *)
(* token: a call made while the token is live returns nil and takes       *)
(* effect, a call made after the cancellation returns an error and        *)
(* leaves the set as it was, so what was inserted (deleted) before the    *)
(* cancellation stays inserted (deleted).                                 *)
(***************************************************************************)
C6_CancelSplitsTheCalls ==
  (ret.op \in {"Add", "Delete"} /\ ~ret.plain /\ Len(ret.arg.items) = 1) =>
    /\ ret.tok = "cancelled" => ret.err /\ s = ret.pre
    /\ ret.tok = "live" =>
         /\ ~ret.err
         /\ ret.op = "Add" => ret.arg.items[1] \in Values(s)
         /\ ret.op = "Delete" => ret.arg.items[1] \notin Values(s)

\* An insert refused after the cancellation, earlier inserts still there.
C6_Witness ==
  /\ ret.op = "Add" /\ ~ret.plain /\ Len(ret.arg.items) = 1
  /\ ret.tok = "cancelled" /\ ret.err
  /\ ret.arg.items[1] \notin Values(s)
  /\ Size(s) > 0

(***************************************************************************)
(* Results of the queries.                                                *)
(***************************************************************************)
\* The sixteen explicit-token operations of C3.
ExplicitOps ==
  {"Contains", "Elements", "Sorted", "Filtered", "Union", "Intersection",
   "Difference", "SymmetricDifference", "Map", "Reduce", "Copy", "Filter",
   "IsSubset", "IsSuperset", "Any", "All"}

\* The returned value is the zero value of its type: false, 0, an empty
\* slice or an empty set.
ZeroResult(r) == r.val = NoResult.val

(***************************************************************************)
(* C3.  Every explicit-token operation called with an already cancelled   *)
(* token returns an error and the zero value, whatever the receiver, the  *)
(* argument set and the predicate are.                                    *)
(***************************************************************************)
C3_CancelledTokenIsRefused ==
  (~ret.plain /\ ret.op \in ExplicitOps /\ ret.tok = "cancelled") =>
    ret.err /\ ZeroResult(ret)

(***************************************************************************)
(* C4.  When the token is cancelled part-way through an explicit-token    *)
(* operation, the value returned with the error is the zero value, never  *)
(* a partly built one (the two reduce forms included).                    *)
(***************************************************************************)
C4_NoPartialResult ==
  (~ret.plain /\ ret.op \in ExplicitOps \cup NumOps /\ ret.tok = "midway" /\ ret.err) =>
    ZeroResult(ret)

(***************************************************************************)
(* C5.  A plain method returns what its explicit form returns under the   *)
(* set's default token, error dropped, and leaves the set in the same     *)
(* state.                                                                  *)
(***************************************************************************)
DefaultBudgets(tok) ==
  IF tok = "cancelled" THEN {0}
  ELSE IF tok = "live" THEN {Never}
  ELSE 1 .. MaxChecks

\* What the explicit form of call r can return (for a mutator: leave in
\* the receiver) under the receiver's default token.
ExplicitResults(r) ==
  LET B == DefaultBudgets(r.tok)
      O == Orders(r.pre)
      P == Orders(other) IN
  CASE r.op = "Add" -> {addWithContext(r.pre, b, r.arg.items).heap : b \in B}
    [] r.op = "Delete" -> {deleteWithContext(r.pre, b, r.arg.items).heap : b \in B}
    [] r.op = "Overwrite" -> {overwriteWithContext(r.pre, b, r.arg.items).heap : b \in B}
    [] r.op = "Append" ->
         {appendWithContext(r.pre, <<other>>, <<p>>, b).heap : p \in P, b \in B}
    [] r.op = "Contains" -> {containsWithContext(r.pre, b, r.arg.items[1]).val : b \in B}
    [] r.op = "Elements" -> {elementsWithContext(r.pre, o, b).val : o \in O, b \in B}
    [] r.op = "Sorted" ->
         UNION {{sortedWithContext(r.pre, o, b, out).val : o \in O, b \in B} :
                  out \in SortOutcomes(r.pre, r.arg.fns)}
    [] r.op = "Filtered" ->
         {filteredWithContext(r.pre, o, b, r.arg.fns[1]).val : o \in O, b \in B}
    [] r.op = "Union" ->
         UNION {{unionWithContext(r.pre, other, o, p, b).val : o \in O, b \in B} :
                  p \in P}
    [] r.op = "Intersection" ->
         {intersectionWithContext(r.pre, other, o, b).val : o \in O, b \in B}
    [] r.op = "Difference" ->
         {differenceWithContext(r.pre, other, oDone, o, b).val : o \in O, b \in B}
    [] r.op = "SymmetricDifference" ->
         UNION {{symmetricDifferenceWithContext(r.pre, sDone, other, oDone, o, p, b).val :
                   o \in O, b \in B} : p \in P}
    [] r.op = "Map" -> {mapWithContext(r.pre, o, b, r.arg.fns[1]).val : o \in O, b \in B}
    [] r.op = "Reduce" -> {reduceWithContext(r.pre, o, b).val : o \in O, b \in B}
    [] r.op = "Copy" -> {copyWithContext(r.pre, o, b).val : o \in O, b \in B}
    [] r.op = "Filter" -> {filterWithContext(r.pre, o, b, r.arg.fns[1]).val : o \in O, b \in B}
    [] r.op = "IsSubset" ->
         {isSubsetWithContext(r.pre, other, oDone, o, b).val : o \in O, b \in B}
    [] r.op = "IsSuperset" ->
         {isSupersetWithContext(r.pre, other, p, b).val : p \in P, b \in B}
    [] r.op = "Any" -> {anyWithContext(r.pre, o, b, r.arg.fns[1]).val : o \in O, b \in B}
    [] r.op = "All" -> {allWithContext(r.pre, o, b, r.arg.fns[1]).val : o \in O, b \in B}

ExplicitForm(r) == {Value(r.op, v) : v \in ExplicitResults(r)}

PlainOps == ExplicitOps \cup {"Add", "Delete", "Overwrite", "Append"}

C5_PlainIsExplicitUnderDefaultToken ==
  (ret.plain /\ ret.op \in PlainOps) => ~ret.err /\ ret.val \in ExplicitForm(ret)

(***************************************************************************)
(* C9.  With a live token, A.Union(B) holds exactly the elements whose    *)
(* key is in A or in B, so its Len() is at most A.Len() + B.Len(), with   *)
(* equality iff A and B share no key.                                     *)
(***************************************************************************)
C9_Union ==
  (ret.op = "Union" /\ ret.tok = "live") =>
    /\ ~ret.err
    /\ DOMAIN ret.val.set = (DOMAIN s) \cup (DOMAIN other)
    /\ Values(ret.val.set) = Values(s) \cup Values(other)
    /\ Size(ret.val.set) <= Size(s) + Size(other)
    /\ Size(ret.val.set) = Size(s) + Size(other) <=> (DOMAIN s) \cap (DOMAIN other) = {}

\* The two sets share an element and the receiver has one more.
C9_Witness ==
  /\ ret.op = "Union" /\ ret.tok = "live"
  /\ Values(s) \cap Values(other) # {}
  /\ Values(s) \ Values(other) # {}
  /\ Size(ret.val.set) < Size(s) + Size(other)

(***************************************************************************)
(* C10.  With no token cancelled, every element of Intersection(A, B) is  *)
(* in A and in B, and Difference(A, B) and Intersection(A, B) partition   *)
(* A: they are disjoint and every element of A is in exactly one.         *)
(***************************************************************************)
Partition(inter, diff) ==
  /\ Values(inter) \subseteq Values(s) \cap Values(other)
  /\ Values(inter) \cap Values(diff) = {}
  /\ Values(inter) \cup Values(diff) = Values(s)
  /\ Size(inter) + Size(diff) = Size(s)

C10_IntersectionDifferencePartition ==
  (ret.tok = "live" /\ AllLive) =>
    /\ ret.op = "Intersection" =>
         \A ord \in Orders(s) :
           Partition(ret.val.set, differenceWithContext(s, other, oDone, ord, Never).val)
    /\ ret.op = "Difference" =>
         \A ord \in Orders(s) :
           Partition(intersectionWithContext(s, other, ord, Never).val, ret.val.set)

\* A receiver with one element in the argument set and one outside.
C10_Witness ==
  /\ ret.tok = "live" /\ AllLive
  /\ ret.op = "Difference" /\ Size(ret.val.set) = 1 /\ Size(s) = 2
  /\ Values(s) \cap Values(other) # {}

(***************************************************************************)
(* C7.  Calls of several threads on one set are thread-safe: a write to   *)
(* the backing map never overlaps another write or a read of it, the      *)
(* process is never stopped by the runtime, and once every call has       *)
(* returned the set holds what some sequential order of the calls leaves  *)
(* (no insert or delete is lost).                                         *)
(***************************************************************************)
Perms(S) ==
  {f \in [1 .. Cardinality(S) -> S] : \A i, j \in DOMAIN f : i # j => f[i] # f[j]}

RECURSIVE SerialRun(_, _, _)
SerialRun(heap, order, i) ==
  IF i > Len(order) THEN heap
  ELSE SerialRun(Written(heap, threads[order[i]]), order, i + 1)

C7_ThreadSafe ==
  /\ ~fatal
  /\ \A t, u \in Threads : ~(Inside(t) /\ Conflict(t, u))
  /\ (\A t \in Threads : threads[t].pc = "done") =>
       s \in {SerialRun(ret.val.set, order, 1) : order \in Perms(Threads)}

(***************************************************************************)
(* C8.  For a set larger than the threshold and a token that is not       *)
(* cancelled, Any(fn) returns true iff some element satisfies fn and      *)
(* All(fn) returns true iff no element violates fn, whatever the pool     *)
(* size and the interleaving of the workers; and a verdict one worker has *)
(* published stays the shared verdict whatever the others do afterwards.  *)
(***************************************************************************)
C8_FanOutVerdict ==
  /\ (ret.op \in {"Any", "All"} /\ ret.tok = "live" /\ Size(s) > minLoadPerGoroutine) =>
       /\ ~ret.err
       /\ ret.op = "Any" =>
            (ret.val.flag <=> \E x \in Values(s) : Pred(ret.arg.fns[1], x))
       /\ ret.op = "All" =>
            (ret.val.flag <=> \A x \in Values(s) : Pred(ret.arg.fns[1], x))
  /\ (Running /\ ~Token(job.plain) /\ \E i \in DOMAIN workers : workers[i].pc = "published") =>
       found = [value |-> job.op = "Any", err |-> FALSE]

\* The sentinel scenario: several workers, one element satisfies fn.
C8_Witness ==
  /\ ret.op = "Any" /\ ret.tok = "live" /\ ret.val.flag
  /\ Size(s) > minLoadPerGoroutine /\ Size(s) >= 3
  /\ parallelTasks >= 2
  /\ Cardinality({x \in Values(s) : Pred(ret.arg.fns[1], x)}) = 1

(***************************************************************************)
(* C11.  With no token cancelled, A.SymmetricDifference(B) has the same   *)
(* elements as Union(Difference(A, B), Difference(B, A)), is the same     *)
(* set as B.SymmetricDifference(A), and holds no element of both.         *)
(***************************************************************************)
UnionOfDifferences(ordS, ordO) ==
  LET d1 == differenceWithContext(s, other, oDone, ordS, Never).val
      d2 == differenceWithContext(other, s, sDone, ordO, Never).val IN
  {unionWithContext(d1, d2, o1, o2, Never).val : o1 \in Orders(d1), o2 \in Orders(d2)}

C11_SymmetricDifference ==
  (ret.op = "SymmetricDifference" /\ ret.tok = "live" /\ AllLive) =>
    /\ ~ret.err
    /\ \A ordS \in Orders(s), ordO \in Orders(other) :
         /\ UnionOfDifferences(ordS, ordO) = {ret.val.set}
         /\ symmetricDifferenceWithContext(other, oDone, s, sDone, ordO, ordS, Never).val
              = ret.val.set
    /\ Values(ret.val.set) \cap (Values(s) \cap Values(other)) = {}
    /\ Values(ret.val.set) = (Values(s) \ Values(other)) \cup (Values(other) \ Values(s))

\* Each set has an element the other has not.
C11_Witness ==
  /\ ret.op = "SymmetricDifference" /\ ret.tok = "live" /\ AllLive
  /\ Values(s) \ Values(other) # {}
  /\ Values(other) \ Values(s) # {}
  /\ Size(ret.val.set) = 2

(***************************************************************************)
(* C12.  Subset/superset duality: A.IsSubset(B) returns what              *)
(* B.IsSuperset(A) returns, for all sets A and B (equal sets, sets of     *)
(* equal size and empty sets included), with no token cancelled.          *)
(***************************************************************************)
C12_SubsetSupersetDuality ==
  (ret.tok = "live" /\ AllLive) =>
    /\ ret.op = "IsSubset" =>
         \A ord \in Orders(s) :
           ret.val.flag = isSupersetWithContext(other, s, ord, Never).val
    /\ ret.op = "IsSuperset" =>
         \A ord \in Orders(other) :
           ret.val.flag = isSubsetWithContext(other, s, sDone, ord, Never).val

(***************************************************************************)
(* C13.  A.IsSubset(B) returns true exactly when every element of A is    *)
(* contained in B: it is reflexive, true for sets with the same elements  *)
(* and true for the empty set against any B.                              *)
(***************************************************************************)
C13_IsSubsetIsInclusion ==
  (ret.op = "IsSubset" /\ ret.tok = "live" /\ AllLive) =>
    (ret.val.flag <=> Values(s) \subseteq Values(other))

(***************************************************************************)
(* C14.  Frame effect: the binary set operations, the variadic free       *)
(* functions, Map, Reduce, Filter, Filtered, Copy, Sorted, Elements,      *)
(* IsSubset, IsSuperset, Any and All leave the receiver and the argument  *)
(* sets as they were; Append writes the receiver only, which becomes the  *)
(* union of the receiver and the argument.                                *)
(***************************************************************************)
Mutators == {"none", "New", "Add", "Delete", "Clear", "Overwrite", "Append"}

FreeOps ==
  {"UnionWithContext", "IntersectionWithContext", "DifferenceWithContext",
   "SymmetricDifferenceWithContext"}

\* What the binary method of a free function can return for a and b.
Binary(op, a, b) ==
  IF op = "UnionWithContext"
    THEN {unionWithContext(a, b, oa, ob, Never).val : oa \in Orders(a), ob \in Orders(b)}
  ELSE IF op = "IntersectionWithContext"
    THEN {intersectionWithContext(a, b, oa, Never).val : oa \in Orders(a)}
  ELSE IF op = "DifferenceWithContext"
    THEN {differenceWithContext(a, b, FALSE, oa, Never).val : oa \in Orders(a)}
  ELSE {symmetricDifferenceWithContext(a, FALSE, b, FALSE, oa, ob, Never).val :
          oa \in Orders(a), ob \in Orders(b)}

RECURSIVE Fold(_, _, _, _)
Fold(op, acc, sets, n) ==
  IF n > Len(sets) THEN {acc}
  ELSE UNION {Fold(op, r, sets, n + 1) : r \in Binary(op, acc, sets[n])}

\* In how many of s and the further sets x is.
Holders(x, sets) ==
  Cardinality({n \in 1 .. Len(sets) : x \in Values(sets[n])})
    + (IF x \in Values(s) THEN 1 ELSE 0)

Expected(op, sets) ==
  IF op = "UnionWithContext"
    THEN Values(s) \cup UNION {Values(sets[n]) : n \in 1 .. Len(sets)}
  ELSE IF op = "IntersectionWithContext"
    THEN {x \in Values(s) : \A n \in 1 .. Len(sets) : x \in Values(sets[n])}
  ELSE IF op = "DifferenceWithContext"
    THEN {x \in Values(s) : \A n \in 1 .. Len(sets) : x \notin Values(sets[n])}
  ELSE {x \in Items : Holders(x, sets) % 2 = 1}

MarshalledOther == \E ord \in Orders(other) : wire = MarshalJSON(other, ord)

C16_JSONRoundTrip ==
  (ret.op = "UnmarshalJSON" /\ ret.tok = "live" /\ ~sDone) =>
    /\ MarshalledOther =>
         /\ ~ret.err
         /\ Size(s) = Size(other)
         /\ \A x \in Values(other) : Contains(s, sDone, x)
    /\ ~DecodeArray(wire).err =>
         /\ ~ret.err
         /\ Values(s) = Range(DecodeArray(wire).items)
         /\ Size(s) = Cardinality(Range(DecodeArray(wire).items))

C16_Witness ==
  /\ ret.op = "UnmarshalJSON" /\ ret.tok = "live" /\ ~sDone
  /\ MarshalledOther
  /\ 10 \in Values(other)
  /\ Values(ret.pre) \ Values(other) # {}

(***************************************************************************)
(* C17.  Hash determinism: the key of a composite value is the same each  *)
(* time it is computed, in whatever order a map's keys are enumerated, so *)
(* an element that was added is held once, is found by Contains and is    *)
(* gone after Delete.                                                     *)
(***************************************************************************)
C17_HashDeterminism ==
  (ret.tok = "live" /\ ret.op \in {"Add", "Contains", "Delete"}) =>
    LET v == ret.arg.items[1] IN
    /\ \A k1 \in MapKeys(v), k2 \in MapKeys(v) :
         /\ toHashComplex(Never, v, k1).key = toHashComplex(Never, v, k2).key
         /\ toHashValue(Never, v, k1).key = toHashValue(Never, v, k2).key
    /\ ret.op = "Add" => Cardinality({k \in DOMAIN s : s[k] = v}) = 1
    /\ ret.op = "Contains" => (ret.val.flag <=> v \in Values(s))
    /\ ret.op = "Delete" => v \notin Values(s)

(***************************************************************************)
(* C18.  Classification by the kind of the element type: numeric,         *)
(* boolean, string, character, complex-number and channel kinds are       *)
(* simple; struct, array, slice, map, function, pointer and interface     *)
(* kinds are complex; IsComplex is the negation of IsSimple.              *)
(***************************************************************************)
ScalarKinds ==
  {"Bool", "Int", "Int8", "Int16", "Int32", "Int64", "Uint", "Uint8", "Uint16",
   "Uint32", "Uint64", "Uintptr", "Float32", "Float64", "Complex64", "Complex128",
   "String", "Chan"}

CompositeKinds == {"Struct", "Array", "Slice", "Map", "Func", "Pointer", "Interface"}

C18_ClassifiedByKind ==
  /\ ret.op = "IsSimple" =>
       /\ elemKind \in ScalarKinds => ret.val.flag
       /\ elemKind \in CompositeKinds => ~ret.val.flag
  /\ ret.op = "IsComplex" =>
       /\ elemKind \in ScalarKinds => ~ret.val.flag
       /\ elemKind \in CompositeKinds => ret.val.flag
  /\ ret.op \in {"IsSimple", "IsComplex"} =>
       IsComplex(simple, elemKind).val = ~IsSimple(simple, elemKind).val

(***************************************************************************)
(* C19.  Sorted() with no comparison function returns the elements of a   *)
(* set of ints in ascending numeric order, each element once.             *)
(***************************************************************************)
C19_SortedAscending ==
  (ret.op = "Sorted" /\ ret.arg.fns = <<>> /\ ret.tok = "live") =>
    /\ Len(ret.val.list) = Size(s)
    /\ Range(ret.val.list) = Values(s)
    /\ \A i \in 1 .. Len(ret.val.list), j \in 1 .. Len(ret.val.list) :
         i < j => ret.val.list[i] < ret.val.list[j]

(***************************************************************************)
(* C20.  On the empty set Any(fn) and All(fn) both return false, for      *)
(* every fn; on a set that is not empty Any(fn) is true iff some element  *)
(* satisfies fn and All(fn) is true iff every element satisfies fn.       *)
(***************************************************************************)
C20_AnyAllOnEmptySet ==
  (ret.op \in {"Any", "All"} /\ ret.tok = "live") =>
    LET fn == ret.arg.fns[1] IN
    /\ Size(s) = 0 => ~ret.val.flag
    /\ (Size(s) > 0 /\ ret.op = "Any") =>
         (ret.val.flag <=> \E x \in Values(s) : Pred(fn, x))
    /\ (Size(s) > 0 /\ ret.op = "All") =>
         (ret.val.flag <=> \A x \in Values(s) : Pred(fn, x))

(***************************************************************************)
(* C21.  Filter(fn) returns a new set holding exactly the elements of the *)
(* receiver that satisfy fn, Filtered(fn) a slice holding exactly those   *)
(* elements, each once: the two differ in the container only.             *)
(***************************************************************************)
Satisfying(fn) == {x \in Values(s) : Pred(fn, x)}

C21_FilterAndFiltered ==
  (ret.op \in {"Filter", "Filtered"} /\ ret.tok = "live") =>
    LET fn == ret.arg.fns[1] IN
    /\ ~ret.err
    /\ ret.op = "Filter" =>
         /\ Values(ret.val.set) = Satisfying(fn)
         /\ Size(ret.val.set) = Cardinality(Satisfying(fn))
         /\ \A ord \in Orders(s) :
              Range(filteredWithContext(s, ord, Never, fn).val) = Values(ret.val.set)
    /\ ret.op = "Filtered" =>
         /\ Range(ret.val.list) = Satisfying(fn)
         /\ Len(ret.val.list) = Cardinality(Satisfying(fn))
         /\ \A ord \in Orders(s) :
              Values(filterWithContext(s, ord, Never, fn).val) = Range(ret.val.list)

C21_Witness ==
  /\ ret.op = "Filter" /\ ret.tok = "live" /\ ret.arg.fns = <<"gt3">>
  /\ Values(ret.val.set) # {}
  /\ Values(ret.val.set) # Values(s)

(***************************************************************************)
(* C22.  Copy returns a new set with exactly the receiver's elements and  *)
(* its identity mode, and the two are independent afterwards: no Add,     *)
(* Delete, Clear or Overwrite on the original changes the copy, and none  *)
(* on the copy changes the original.                                      *)
(***************************************************************************)
Writes == {"Add", "Delete", "Clear", "Overwrite"}

RECURSIVE SumOf(_)
SumOf(v) == IF v = <<>> THEN 0 ELSE v[1] + SumOf(Tail(v))

Clamped(n) == IF n <= 0 THEN 1 ELSE IF n > NumCPU * 3 THEN NumCPU * 3 ELSE n

C23_PoolSizeIsClampedSum ==
  /\ 1 <= parallelTasks /\ parallelTasks <= NumCPU * 3
  /\ ret.op = "ParallelTasks" =>
       /\ ret.val.num = parallelTasks
       /\ ret.arg.items = <<>> => parallelTasks = ret.val.list[1]
       /\ ret.arg.items # <<>> => parallelTasks = Clamped(SumOf(ret.arg.items))

(***************************************************************************)
(* C24.  An operation given an explicit token that is already cancelled   *)
(* aborts before any work: it never invokes the caller's predicate,       *)
(* transform or reducer and returns an empty result.  For the free        *)
(* functions MapWithContext, ReduceWithContext, FilterWithContext and the *)
(* methods mapWithContext, reduceWithContext, filterWithContext,          *)
(* filteredWithContext, anyWithContext, allWithContext.                   *)
(***************************************************************************)
FnOps ==
  {"MapWithContext", "ReduceWithContext", "FilterWithContext",
   "Map", "Reduce", "Filter", "Filtered", "Any", "All"}

C24_CancelledTokenDoesNoWork ==
  (ret.op \in FnOps /\ ~ret.plain /\ ret.tok = "cancelled") =>
    /\ calls = 0
    /\ Size(ret.val.set) = 0 /\ ret.val.list = <<>>

C26_StoreInvariant ==
  /\ \A k \in DOMAIN s :
       \A keys \in MapKeys(s[k]) : toHashComplex(Never, s[k], keys).key = k
  /\ Size(s) = Cardinality(Values(s))

(***************************************************************************)
(* C27.  The key of a composite value is the digest of the texts of its   *)
(* leaves, written one after the other with nothing in between: two       *)
(* values have one key iff their texts concatenate to one string.  Adding *)
(* a value whose key is taken (the slice [11] after [1 1]) leaves Len()   *)
(* as it was and replaces the stored value.                               *)
(***************************************************************************)
RECURSIVE Concat(_)
Concat(elems) == IF elems = <<>> THEN <<>> ELSE Sprintf(Head(elems)) \o Concat(Tail(elems))

KeyOf(v) == toHashValue(Never, v, <<>>).key

C28_OverwriteClearsBeforeFailing ==
  (ret.op = "Overwrite" /\ ret.tok = "cancelled" /\ ret.arg.items # <<>>) =>
    /\ Size(s) = 0
    /\ ~ret.plain => ret.err

\* A set of two elements was overwritten under a cancelled token.
C28_Witness ==
  /\ ret.op = "Overwrite" /\ ret.tok = "cancelled" /\ ~ret.plain
  /\ ret.arg.items # <<>> /\ ret.err
  /\ Size(ret.pre) = 2 /\ Size(s) = 0

(***************************************************************************)
(* C29.  differenceWithContext, symmetricDifferenceWithContext and        *)
(* isSubsetWithContext called with a live explicit token return what the  *)
(* contents of the two sets determine, whether or not the default token   *)
(* of either set has been cancelled: no such cancellation yields a wrong  *)
(* set or a wrong verdict with a nil error.                               *)
(***************************************************************************)
C29_DefaultTokensDoNotLeak ==
  (~ret.plain /\ ret.tok = "live"
     /\ ret.op \in {"Difference", "SymmetricDifference", "IsSubset"}) =>
    /\ ~ret.err
    /\ ret.op = "Difference" =>
         \E ord \in Orders(s) :
           ret.val.set = differenceWithContext(s, other, FALSE, ord, Never).val
    /\ ret.op = "SymmetricDifference" =>
         \E ordS \in Orders(s), ordO \in Orders(other) :
           ret.val.set =
             symmetricDifferenceWithContext(s, FALSE, other, FALSE, ordS, ordO, Never).val
    /\ ret.op = "IsSubset" =>
         \E ord \in Orders(s) :
           ret.val.flag = isSubsetWithContext(s, other, FALSE, ord, Never).val

(***************************************************************************)
(* C30.  NewWithContext given a token that is already cancelled and items *)
(* returns, with no error, an empty set whose identity mode is            *)
(* classified.  The default token of a set never comes back to life, and  *)
(* a plain Add on a set whose default token is cancelled stores nothing,  *)
(* so Len() stays 0 through any sequence of plain Adds.                   *)
(***************************************************************************)
C30_ConstructorDropsItemsSilently ==
  /\ []((ret.op = "NewWithContext" /\ ret.tok = "cancelled") =>
          /\ ~ret.err
          /\ sDone
          /\ Size(s) = 0 /\ ret.val.set = EmptyHeap
          /\ simple # 0 /\ simple = IsSimple(0, elemKind).simple)
  /\ [][/\ sDone => sDone'
        /\ (sDone /\ ret'.op = "Add" /\ ret'.plain) => (s' = s /\ ~ret'.err)]_vars

\* The constructor was given items and a cancelled token.
C30_Witness ==
  /\ ret.op = "NewWithContext" /\ ret.tok = "cancelled"
  /\ Len(ret.arg.items) = 2
  /\ Size(s) = 0

====
